---- MODULE Spec2Model ----
(***************************************************************************)
(* The AI behavioural nudge service: the advanced AI orchestrator, its     *)
(* three engines, the retrain endpoint and the recommendation endpoints.   *)
(*                                                                         *)
(* Two orchestrator modules exist in the repository and expose the same    *)
(* interface (initialize, get_advanced_recommendations,                    *)
(* should_retrain_models, last_model_update):                              *)
(*   "models"      src/ai_microservice/models/advanced_ai.py               *)
(*   "placeholder" src/advanced_ai.py                                      *)
(* The variable impl says which one the serving layer is wired to.         *)
(*                                                                         *)
(* Numbers: scores and probabilities are integers in hundredths            *)
(* (0.5 = 50), weights in tenths (0.6 = 6), so weighted scores and the     *)
(* confidence are in thousandths (0.48 = 480).  Time is in whole days.     *)
(***************************************************************************)
EXTENDS Integers, Sequences, FiniteSets, TLC

VARIABLES
    impl,                 \* which orchestrator module is wired in
    now,                  \* datetime.now(), in days
    serving,              \* the startup event has returned; requests are served
    db,                   \* which of the queried tables currently return rows
    newSince,             \* rows of user_learning_progress with completed_at > last_model_update
    last_model_update,    \* <<>> is None, <<t>> a timestamp
    is_initialized,       \* placeholder orchestrator only
    collaborative_engine, \* [user_item_matrix, user_similarity_matrix]
    content_engine,       \* [content_features]
    behavioral_engine,    \* [fitted]: scaler, encoders and the three models
    nextBuild,            \* number of initialize calls begun so far
    pc,                   \* per builder: where its initialize call is suspended
    build,                \* per builder: the id of its initialize call, with what it saw
    rresp,                \* per builder: the status its request answered
    qpc,                  \* the recommendation request: idle, suspended in optimize_nudge, done
    qin,                  \* what the request computed before its await
    qresp,                \* the response of the last recommendation request
    fusion_cf,            \* _combine_recommendations: its arguments cf_recs,
    fusion_cb,            \*   cb_recs
    fusion_engagement,    \*   and engagement_score,
    fusion_result,        \*   and what it returned
    fusion_pc,            \*   "args" before the call, "returned" after it
    lp_pc,                \* recommend_learning_path: the await it is suspended at
    lp,                   \* its local variables
    lp_resp,              \* the HTTP response it gave
    nudge_logs,           \* rows of the nudge_logs table
    str_hash,             \* hash() of each user id in the running process
    ng_pc,                \* optimize_nudge on its own: "idle", or "returned"
    ng_args,              \*   the user, the behaviour data and the history it met
    ng_result,            \*   the nudge it returned
    ng_prev,              \*   the nudge returned by the call before
    nb_module,            \* which CollaborativeFilteringEngine module is called
    nb_matrix,            \* its user_item_matrix with the similarities to the requester
    nb_user,              \* get_user_recommendations: the requester's row, 0 if none
    nb_pc,                \*   "args" before the call, "returned" after it
    nb_similar_users,     \*   its local similar_users
    nb_result,            \*   what it returned, or that it raised
    content_data,         \* AIRecommendationEngine.content_data, the loaded catalogue
    progress,             \* user_learning_progress of the user: status per content id
    ct_pc,                \* a content recommendation: "args" before the call, "returned" after
    ct_args,              \*   the serving path and the user's preferences
    ct_result,            \*   what it returned, and whether by the fallback
    bd_pc,                \* BiasDetector.detect_biases: "args" before the call, "returned" after
    bd_user_data,         \*   its argument user_data
    bd_result,            \*   the list it returned
    dp_pc,                \* DataProcessor.process_raw_data: "args" or "returned"
    dp_config,            \*   ProcessingConfig: validate_data, remove_duplicates
    dp_counts,            \*   processed_count and error_count of the processor
    dp_raw_data,          \*   its argument raw_data
    dp_result,            \*   the list it returned
    ft_now,               \* time.time() as a DataFetcher sees it, in tenths of a second
    last_request_time,    \* DataFetcher.last_request_time
    ft_pc,                \* per task: where its _make_request is suspended
    ft_wake,              \* per task: when its asyncio.sleep in _rate_limit ends
    ft_released,          \* per task: when _rate_limit let it go, <<>> before
    rq_attempt,           \* _make_request of task 1: the loop variable attempt
    rq_log,               \*   per attempt made: the response and the sleep that followed
    rq_outcome            \*   "", "returned" or "raised"

orchestrator_vars ==
    <<impl, now, serving, db, newSince, last_model_update, is_initialized,
      collaborative_engine, content_engine, behavioral_engine, nextBuild,
      pc, build, rresp, qpc, qin, qresp>>

fusion_vars == <<fusion_cf, fusion_cb, fusion_engagement, fusion_result, fusion_pc>>

path_vars == <<lp_pc, lp, lp_resp, nudge_logs>>

nudge_vars == <<str_hash, ng_pc, ng_args, ng_result, ng_prev>>

neighbour_vars == <<nb_module, nb_matrix, nb_user, nb_pc, nb_similar_users, nb_result>>

content_vars == <<content_data, progress, ct_pc, ct_args, ct_result>>

bias_vars == <<bd_pc, bd_user_data, bd_result>>

dedup_vars == <<dp_pc, dp_config, dp_counts, dp_raw_data, dp_result>>

fetcher_vars ==
    <<ft_now, last_request_time, ft_pc, ft_wake, ft_released, rq_attempt, rq_log, rq_outcome>>

tools_vars == <<content_vars, bias_vars, dedup_vars, fetcher_vars>>

service_vars == <<orchestrator_vars, fusion_vars, path_vars, nudge_vars, neighbour_vars>>

vars == <<orchestrator_vars, fusion_vars, path_vars, nudge_vars, neighbour_vars, tools_vars>>

engines == <<collaborative_engine, content_engine, behavioral_engine>>

(***************************************************************************)
(* Bounds of the model.                                                    *)
(***************************************************************************)
MaxBuilds == 2
MaxNow == 8
MaxNew == 102
MaxItem == 6
MaxLogs == 2
MaxHash == 2
MaxUsers == 6
CatalogSize == 12
MaxInProgress == 1
MaxRaw == 3
MaxProcessed == 4
StartClock == 2
MaxClock == 8

(***************************************************************************)
(* Program constants.                                                      *)
(***************************************************************************)
RetrainDays == 7
RetrainInteractions == 100
TopRecs == 5
TopK == 3
TemplateCount == 3
FullSample == 50
NeighbourCount == 5
top_k == 5
n_recommendations == 10
BeginnerGate == 5
AdvancedGate == 10
FallbackItems == 5
PathItems == 3
rate_limit == 5
retries == 3
retry_delay == 10

\* self.user_item_matrix = None, self.content_features = None, an unfitted scaler
Unbuilt == 0

None == <<>>
Some(x) == <<x>>

Impls == {"models", "placeholder"}
Builders == {"startup", "retrain1", "retrain2"}
Requests == {"retrain1", "retrain2"}
Tables == {"interactions", "catalog", "training"}

\* interactions recorded between two looks at the table arrive in batches
BatchSizes == {50, 51}
TickDays == {7, 8}

(***************************************************************************)
(* Dictionaries and sorting, as Python does them: a dict is the sequence   *)
(* of its (key, value) pairs in insertion order, sorted() is stable.       *)
(***************************************************************************)
Keys(d) == {d[i][1] : i \in 1..Len(d)}

IndexOf(d, k) == CHOOSE i \in 1..Len(d) : d[i][1] = k

\* d[k] = v
DictSet(d, k, v) ==
    IF k \in Keys(d) THEN [d EXCEPT ![IndexOf(d, k)] = <<k, v>>]
    ELSE Append(d, <<k, v>>)

\* a fusion that overwrites the collaborative share instead of adding to it
DictAddOverwrites(d, k, v) == DictSet(d, k, v)

\* if k in d: d[k] += v else: d[k] = v
DictAdd(d, k, v) ==
    IF k \in Keys(d) THEN [d EXCEPT ![IndexOf(d, k)] = <<k, @[2] + v>>]
    ELSE Append(d, <<k, v>>)

\* x put behind every element whose score is at least its own
RECURSIVE InsertDesc(_, _)
InsertDesc(s, x) ==
    IF s = <<>> THEN <<x>>
    ELSE IF Head(s)[2] >= x[2] THEN <<Head(s)>> \o InsertDesc(Tail(s), x)
    ELSE <<x>> \o s

RECURSIVE SortInto(_, _)
SortInto(acc, s) ==
    IF s = <<>> THEN acc ELSE SortInto(InsertDesc(acc, Head(s)), Tail(s))

\* sorted(items, key=lambda x: x[1], reverse=True)
SortedDesc(s) == SortInto(<<>>, s)

\* s[:n]
FirstN(s, n) == SubSeq(s, 1, IF Len(s) < n THEN Len(s) ELSE n)

(***************************************************************************)
(* AdvancedAIOrchestrator, module "models": fusion and confidence.         *)
(***************************************************************************)
cf_weight_of(engagement_score) == IF engagement_score > 50 THEN 6 ELSE 4

RECURSIVE WeightCf(_, _, _)
WeightCf(combined, cf_recs, cf_weight) ==
    IF cf_recs = <<>> THEN combined
    ELSE WeightCf(DictSet(combined, Head(cf_recs)[1], Head(cf_recs)[2] * cf_weight),
                  Tail(cf_recs), cf_weight)

RECURSIVE WeightCb(_, _, _)
WeightCb(combined, cb_recs, cb_weight) ==
    IF cb_recs = <<>> THEN combined
    ELSE WeightCb(DictAdd(combined, Head(cb_recs)[1], Head(cb_recs)[2] * cb_weight),
                  Tail(cb_recs), cb_weight)

combine_recommendations(cf_recs, cb_recs, engagement_score) ==
    LET cf_weight == cf_weight_of(engagement_score)
        cb_weight == 10 - cf_weight
        combined == WeightCb(WeightCf(<<>>, cf_recs, cf_weight), cb_recs, cb_weight)
    IN  FirstN(SortedDesc(combined), TopRecs)

calculate_overall_confidence(cf_recs, cb_recs, engagement_score) ==
    LET base_confidence == 300 + (IF cf_recs # <<>> THEN 200 ELSE 0)
                               + (IF cb_recs # <<>> THEN 200 ELSE 0)
        engagement_boost == engagement_score * 3
    IN  IF base_confidence + engagement_boost > 1000 THEN 1000
        ELSE base_confidence + engagement_boost

(***************************************************************************)
(* NudgeOptimizationEngine.                                                *)
(***************************************************************************)
\* a segmentation that tests the velocity before the at-risk rule
get_user_segment_velocity_first(behavior_data) ==
    IF behavior_data.engagement_score > 70 /\ behavior_data.completion_rate > 80
        THEN "high_performer"
    ELSE IF behavior_data.learning_velocity > 200
        THEN "fast_learner"
    ELSE IF behavior_data.engagement_score < 30 \/ behavior_data.completion_rate < 30
        THEN "at_risk"
    ELSE "steady_learner"

get_user_segment(behavior_data) ==
    IF behavior_data.engagement_score > 70 /\ behavior_data.completion_rate > 80
        THEN "high_performer"
    ELSE IF behavior_data.engagement_score < 30 \/ behavior_data.completion_rate < 30
        THEN "at_risk"
    ELSE IF behavior_data.learning_velocity > 200
        THEN "fast_learner"
    ELSE "steady_learner"

segment_preferences(user_segment) ==
    CASE user_segment = "high_performer" -> "social"
      [] user_segment = "at_risk" -> "motivational"
      [] user_segment = "fast_learner" -> "educational"
      [] user_segment = "steady_learner" -> "urgency"
      [] OTHER -> "motivational"

get_best_nudge_type(user_segment, effectiveness_data) ==
    IF effectiveness_data = <<>> THEN "motivational"
    ELSE segment_preferences(user_segment)

\* What a method hands its caller: a value it returned, or an exception that
\* left it.  Every method below ends in "except Exception", so none escapes.
Returned(v) == [ok |-> TRUE, value |-> v]
Escaped == [ok |-> FALSE, value |-> <<>>]

\* the except branch of optimize_nudge
DefaultNudge ==
    [message |-> "Continue your investment learning journey!",
     type |-> "motivational", user_segment |-> "default"]

\* optimize_nudge once _get_nudge_effectiveness has answered (fetched) or raised
optimize_nudge(behavior_data, fetched, effectiveness_data) ==
    IF ~fetched THEN Returned(DefaultNudge)
    ELSE LET user_segment == get_user_segment(behavior_data)
         IN  Returned([message |-> "template",
                       type |-> get_best_nudge_type(user_segment, effectiveness_data),
                       user_segment |-> user_segment])

(***************************************************************************)
(* BehavioralAnalyticsEngine: the three predict_* methods.  A prediction   *)
(* is the fitted model's output when _prepare_user_features returns a      *)
(* vector, and 0.5 when it returns None or the method's try block raises.  *)
(***************************************************************************)
\* scaler.transform raises NotFittedError on an unfitted scaler; the method
\* catches whatever is raised and returns None (FALSE here)
prepare_user_features(fitted, raises) == fitted # Unbuilt /\ ~raises

\* a predict_engagement without its try/except: what it raises reaches the caller
predict_engagement_unguarded(fitted, raises, model_output) ==
    IF raises THEN Escaped
    ELSE IF fitted # Unbuilt THEN Returned(model_output.engagement)
    ELSE Returned(50)

predict_engagement(fitted, raises, model_output) ==
    IF prepare_user_features(fitted, raises)
        THEN Returned(model_output.engagement)
        ELSE Returned(50)

predict_completion_probability(fitted, raises, model_output) ==
    IF prepare_user_features(fitted, raises)
        THEN Returned(model_output.completion_probability)
        ELSE Returned(50)

predict_churn_risk(fitted, raises, model_output) ==
    IF prepare_user_features(fitted, raises)
        THEN Returned(model_output.churn_risk)
        ELSE Returned(50)

(***************************************************************************)
(* The recommenders' request-path methods: what the built state yields for *)
(* the requesting user, [] when nothing is built or the try block raises.  *)
(***************************************************************************)
get_user_recommendations(user_item_matrix, raises, neighbours_yield) ==
    IF user_item_matrix = Unbuilt THEN Returned(<<>>)
    ELSE IF raises THEN Returned(<<>>)
    ELSE Returned(neighbours_yield)

get_content_recommendations(content_features, raises, scored) ==
    IF content_features = Unbuilt THEN Returned(<<>>)
    ELSE IF raises THEN Returned(<<>>)
    ELSE Returned(scored)

(***************************************************************************)
(* should_retrain_models.                                                  *)
(***************************************************************************)
should_retrain_models_full(lmu, t, new_interactions) ==
    IF lmu = None THEN TRUE
    ELSE IF t - lmu[1] > RetrainDays THEN TRUE
    ELSE new_interactions > RetrainInteractions

should_retrain_models_placeholder(lmu, t) ==
    IF lmu = None THEN TRUE
    ELSE IF t - lmu[1] > RetrainDays THEN TRUE
    ELSE FALSE

should_retrain_models ==
    IF impl = "models"
        THEN should_retrain_models_full(last_model_update, now, newSince)
        ELSE should_retrain_models_placeholder(last_model_update, now)

\* the count query runs only when the first two tests fail
QueryRuns ==
    /\ impl = "models"
    /\ last_model_update # None
    /\ ~(now - last_model_update[1] > RetrainDays)

(***************************************************************************)
(* What a recommendation request may meet: the lists the built engines     *)
(* yield for the user, the fitted models' outputs, the user's behaviour.   *)
(***************************************************************************)
CfYields == {<<>>, << <<1, 80>>, <<2, 40>> >>}
CbScored == {<<>>, << <<2, 60>>, <<3, 50>> >>}
\* the fitted models' outputs.  engagement_model is a GradientBoostingRegressor
\* fitted on engagement_score = active_days * completion_rate * avg_time_spent
\* / 100, which is not confined to [0,1], and predict_engagement returns its
\* output unclamped; the other two are predict_proba values.
ModelOutputs ==
    {[engagement |-> 20, completion_probability |-> 30, churn_risk |-> 90],
     [engagement |-> 80, completion_probability |-> 90, churn_risk |-> 10],
     [engagement |-> 300, completion_probability |-> 100, churn_risk |-> 0],
     [engagement |-> -150, completion_probability |-> 0, churn_risk |-> 100]}

\* analyze_user_behavior: the three engagement factors, each capped at 1.0
engagement_factors(completion_rate, learning_velocity, sessions) ==
    << IF completion_rate * 2 < 100 THEN completion_rate * 2 ELSE 100,
       IF learning_velocity \div 3 < 100 THEN learning_velocity \div 3 ELSE 100,
       IF sessions * 5 < 100 THEN sessions * 5 ELSE 100 >>

\* what analyze_user_behavior returns for a user with this completion rate,
\* this many lessons completed in the week and this many recent sessions
UserBehaviorData(completion_rate, lesson_completions, sessions) ==
    LET learning_velocity == (lesson_completions * 100) \div 7
        f == engagement_factors(completion_rate, learning_velocity, sessions)
    IN  [engagement_score |-> (f[1] + f[2] + f[3]) \div 3,
         completion_rate |-> completion_rate,
         learning_velocity |-> learning_velocity,
         recent_sessions |-> sessions]

\* what its except branch returns
DefaultBehavior ==
    [engagement_score |-> 50, completion_rate |-> 0, learning_velocity |-> 0,
     recent_sessions |-> 0]

BehaviorInputs == {UserBehaviorData(90, 21, 21), UserBehaviorData(10, 0, 2)}
EffectivenessData ==
    {<<>>, <<[nudge_type |-> "social", effectiveness_score |-> 80]>>}

\* random.uniform(0.2, 0.9), (0.4, 0.95), (0.05, 0.6) of the placeholder engine
PlaceholderOutputs ==
    {[engagement |-> e, completion_probability |-> c, churn_risk |-> h] :
        e \in {20, 90}, c \in {40, 95}, h \in {5, 60}}

\* every request of the sets above, with every choice of the try blocks that raise
RequestInputs ==
    [raises : SUBSET {"cf", "cb", "pred"}, yield : CfYields, scored : CbScored,
     model_output : ModelOutputs, behavior_data : BehaviorInputs]

\* the requests in which nothing raises, of one user
PlainInputs ==
    {in \in RequestInputs :
        /\ in.raises = {}
        /\ (in.yield = <<>>) = (in.scored = <<>>)
        /\ in.model_output.engagement = 80
        /\ in.behavior_data = UserBehaviorData(90, 21, 21)}

NoBuild == [id |-> 0, failed |-> FALSE, before |-> <<>>]
NoAnswer == [status |-> "none", checked |-> FALSE, should |-> FALSE]
NoInput == <<>>
NoResponse == <<>>

BuildPcs == {"cf_fetch", "cb_fetch", "train_fetch"}
Rebuilding == {b \in Builders : pc[b] \in BuildPcs}

\* the ids of the builds that wrote the engines' state, one per attribute
Tags(e) ==
    {e[1].user_item_matrix, e[1].user_similarity_matrix,
     e[2].content_features, e[3].fitted}

\* a rebuild is under way, and each one under way began from engines that
\* all came from one build (or were all unbuilt)
CleanRebuild ==
    /\ Rebuilding # {}
    /\ \A b \in Rebuilding : Cardinality(Tags(build[b].before[1])) = 1

OrchestratorInit ==
    /\ impl \in Impls
    /\ now = 0
    /\ serving = FALSE
    /\ db \in [Tables -> BOOLEAN]
    /\ newSince = 0
    /\ last_model_update = None
    /\ is_initialized = FALSE
    /\ collaborative_engine = [user_item_matrix |-> Unbuilt, user_similarity_matrix |-> Unbuilt]
    /\ content_engine = [content_features |-> Unbuilt]
    /\ behavioral_engine = [fitted |-> Unbuilt]
    /\ nextBuild = 0
    /\ pc = [b \in Builders |-> IF b = "startup" THEN "boot" ELSE "idle"]
    /\ build = [b \in Builders |-> NoBuild]
    /\ rresp = [b \in Builders |-> NoAnswer]
    /\ qpc = "idle"
    /\ qin = NoInput
    /\ qresp = NoResponse

FusionIdle ==
    /\ fusion_cf = <<>>
    /\ fusion_cb = <<>>
    /\ fusion_engagement = 50
    /\ fusion_result = <<>>
    /\ fusion_pc = "args"

\* no /nudge/recommend-path request in progress
NoPathRequest ==
    [user_profile |-> <<>>, behavior_data |-> <<>>, recommended_content |-> <<>>,
     nudge_type |-> "", confidence_score |-> 0, priority_score |-> 0,
     current_path_id |-> <<>>, audit_failed |-> FALSE,
     profile_fetch |-> ""]
NoPathResponse == [status_code |-> 0]

PathIdle ==
    /\ lp_pc = "idle"
    /\ lp = NoPathRequest
    /\ lp_resp = NoPathResponse
    /\ nudge_logs = 0

\* no optimize_nudge call under study
NudgeUsers == {"u1", "u2"}
NoNudgeArgs == [user_id |-> "", behavior_data |-> <<>>, fetched |-> FALSE,
                effectiveness_data |-> <<>>]
NoNudge == [message |-> 0, type |-> "", confidence |-> 0, user_segment |-> ""]

NudgeIdle ==
    /\ str_hash = [u \in NudgeUsers |-> 0]
    /\ ng_pc = "idle"
    /\ ng_args = NoNudgeArgs
    /\ ng_result = NoNudge
    /\ ng_prev = [user_id |-> "", nudge |-> NoNudge]

\* no get_user_recommendations call under study
NoMatrix == [built |-> FALSE, similar |-> FALSE, rows |-> <<>>]
NoRecommendations == [raised |-> FALSE, recs |-> <<>>]

NeighbourIdle ==
    /\ nb_module = "advanced_ai"
    /\ nb_matrix = NoMatrix
    /\ nb_user = 0
    /\ nb_pc = "args"
    /\ nb_similar_users = <<>>
    /\ nb_result = NoRecommendations

\* no content recommendation under study
NoContentArgs == [path |-> "", preferred_content_types |-> {}, preferred_topics |-> {},
                  learning_style |-> "", built |-> FALSE, raises |-> FALSE]
NoContent == [fallback |-> FALSE, recs |-> <<>>]

ContentIdle ==
    /\ content_data = <<>>
    /\ progress = <<>>
    /\ ct_pc = "args"
    /\ ct_args = NoContentArgs
    /\ ct_result = NoContent

\* no detect_biases call under study
NoUserData ==
    [other_keys |-> FALSE, investment_experience_years |-> <<>>,
     decision_frequency_per_month |-> <<>>, recent_portfolio_change_percentage |-> <<>>,
     risk_assessment_score |-> <<>>, recent_impulsive_trades |-> <<>>,
     has_emergency_fund |-> <<>>, news_consumption_sources |-> <<>>]

BiasIdle ==
    /\ bd_pc = "args"
    /\ bd_user_data = NoUserData
    /\ bd_result = <<>>

\* DataProcessor(): ProcessingConfig() and both counters at 0
DedupIdle ==
    /\ dp_pc = "args"
    /\ dp_config = [validate_data |-> TRUE, remove_duplicates |-> TRUE]
    /\ dp_counts = [processed_count |-> 0, error_count |-> 0]
    /\ dp_raw_data = <<>>
    /\ dp_result = <<>>

Tasks == {1, 2, 3}

\* DataFetcher(config): last_request_time = 0, no request begun
FetcherIdle ==
    /\ ft_now = 0
    /\ last_request_time = 0
    /\ ft_pc = [t \in Tasks |-> "idle"]
    /\ ft_wake = [t \in Tasks |-> 0]
    /\ ft_released = [t \in Tasks |-> <<>>]
    /\ rq_attempt = 0
    /\ rq_log = <<>>
    /\ rq_outcome = ""

ToolsIdle == ContentIdle /\ BiasIdle /\ DedupIdle /\ FetcherIdle

Init == OrchestratorInit /\ FusionIdle /\ PathIdle /\ NudgeIdle /\ NeighbourIdle /\ ToolsIdle

(***************************************************************************)
(* The world outside: the clock, the tables.                               *)
(***************************************************************************)
Tick ==
    /\ \E d \in TickDays : now + d <= MaxNow /\ now' = now + d
    /\ UNCHANGED <<impl, serving, db, newSince, last_model_update, is_initialized,
                   engines, nextBuild, pc, build, rresp, qpc, qin, qresp>>
    /\ UNCHANGED <<fusion_vars, path_vars, nudge_vars, neighbour_vars, tools_vars>>

RecordInteractions ==
    /\ last_model_update # None
    /\ \E n \in BatchSizes : newSince + n <= MaxNew /\ newSince' = newSince + n
    /\ UNCHANGED <<impl, now, serving, db, last_model_update, is_initialized,
                   engines, nextBuild, pc, build, rresp, qpc, qin, qresp>>
    /\ UNCHANGED <<fusion_vars, path_vars, nudge_vars, neighbour_vars, tools_vars>>

DbChange ==
    /\ \E t \in Tables : db' = [db EXCEPT ![t] = ~@]
    /\ UNCHANGED <<impl, now, serving, newSince, last_model_update, is_initialized,
                   engines, nextBuild, pc, build, rresp, qpc, qin, qresp>>
    /\ UNCHANGED <<fusion_vars, path_vars, nudge_vars, neighbour_vars, tools_vars>>

(***************************************************************************)
(* AdvancedAIOrchestrator.initialize, module "models": three awaits, one   *)
(* per engine; each engine catches its own errors.                         *)
(***************************************************************************)
\* the call runs to the first await, db_connection.fetch in build_user_item_matrix
BeginInitialize(b) ==
    /\ nextBuild < MaxBuilds
    /\ nextBuild' = nextBuild + 1
    /\ build' = [build EXCEPT ![b] =
                    [id |-> nextBuild + 1, failed |-> FALSE,
                     before |-> <<engines, last_model_update>>]]
    /\ pc' = [pc EXCEPT ![b] = "cf_fetch"]

\* build_user_item_matrix after its fetch; then on to the fetch of build_content_features
build_user_item_matrix(b) ==
    /\ pc[b] = "cf_fetch"
    /\ \E fetched \in BOOLEAN :
        /\ collaborative_engine' =
             IF fetched /\ db["interactions"]
                 THEN [user_item_matrix |-> build[b].id,
                       user_similarity_matrix |-> build[b].id]
                 ELSE collaborative_engine
        /\ build' = [build EXCEPT ![b].failed = @ \/ ~fetched]
    /\ pc' = [pc EXCEPT ![b] = "cb_fetch"]
    /\ UNCHANGED <<impl, now, serving, db, newSince, last_model_update, is_initialized,
                   content_engine, behavioral_engine, nextBuild, rresp, qpc, qin, qresp>>
    /\ UNCHANGED <<fusion_vars, path_vars, nudge_vars, neighbour_vars, tools_vars>>

\* build_content_features after its fetch: with no rows fit_transform([]) raises
\* ValueError, which the method catches; then on to the fetch of train_models
build_content_features(b) ==
    /\ pc[b] = "cb_fetch"
    /\ \E fetched \in BOOLEAN :
        /\ content_engine' =
             IF fetched /\ db["catalog"]
                 THEN [content_features |-> build[b].id]
                 ELSE content_engine
        /\ build' = [build EXCEPT ![b].failed = @ \/ ~fetched \/ ~db["catalog"]]
    /\ pc' = [pc EXCEPT ![b] = "train_fetch"]
    /\ UNCHANGED <<impl, now, serving, db, newSince, last_model_update, is_initialized,
                   collaborative_engine, behavioral_engine, nextBuild, rresp, qpc, qin, qresp>>
    /\ UNCHANGED <<fusion_vars, path_vars, nudge_vars, neighbour_vars, tools_vars>>

\* train_models after its fetch, then the rest of initialize and of its caller
train_models(b) ==
    /\ pc[b] = "train_fetch"
    /\ \E fetched \in BOOLEAN :
        /\ behavioral_engine' =
             IF fetched /\ db["training"]
                 THEN [fitted |-> build[b].id]
                 ELSE behavioral_engine
        /\ build' = IF b = "startup" THEN [build EXCEPT ![b] = NoBuild]
                    ELSE [build EXCEPT ![b].failed = @ \/ ~fetched]
    /\ last_model_update' = Some(now)
    /\ newSince' = 0
    /\ IF b = "startup"
         THEN /\ serving' = TRUE
              /\ pc' = [pc EXCEPT ![b] = "idle"]
              /\ UNCHANGED rresp
         ELSE /\ pc' = [pc EXCEPT ![b] = "answered"]
              /\ rresp' = [rresp EXCEPT ![b].status = "success"]
              /\ UNCHANGED serving
    /\ UNCHANGED <<impl, now, db, is_initialized, collaborative_engine, content_engine,
                   nextBuild, qpc, qin, qresp>>
    /\ UNCHANGED <<fusion_vars, path_vars, nudge_vars, neighbour_vars, tools_vars>>

(***************************************************************************)
(* AdvancedAIOrchestrator.initialize, module "placeholder": no await.      *)
(***************************************************************************)
initialize_placeholder ==
    IF is_initialized
        THEN UNCHANGED <<last_model_update, is_initialized, newSince>>
        ELSE /\ last_model_update' = Some(now)
             /\ is_initialized' = TRUE
             /\ newSince' = 0

(***************************************************************************)
(* startup_event: a failure to reach the database, or in                   *)
(* load_content_data, is logged and the service starts without             *)
(* initialize having been called.                                          *)
(***************************************************************************)
StartupFails ==
    /\ pc["startup"] = "boot"
    /\ pc' = [pc EXCEPT !["startup"] = "idle"]
    /\ serving' = TRUE
    /\ UNCHANGED <<impl, now, db, newSince, last_model_update, is_initialized,
                   engines, nextBuild, build, rresp, qpc, qin, qresp>>
    /\ UNCHANGED <<fusion_vars, path_vars, nudge_vars, neighbour_vars, tools_vars>>

StartupModels ==
    /\ pc["startup"] = "boot"
    /\ impl = "models"
    /\ BeginInitialize("startup")
    /\ UNCHANGED <<impl, now, serving, db, newSince, last_model_update, is_initialized,
                   engines, rresp, qpc, qin, qresp>>
    /\ UNCHANGED <<fusion_vars, path_vars, nudge_vars, neighbour_vars, tools_vars>>

StartupPlaceholder ==
    /\ pc["startup"] = "boot"
    /\ impl = "placeholder"
    /\ initialize_placeholder
    /\ pc' = [pc EXCEPT !["startup"] = "idle"]
    /\ serving' = TRUE
    /\ UNCHANGED <<impl, now, db, engines, nextBuild, build, rresp, qpc, qin, qresp>>
    /\ UNCHANGED <<fusion_vars, path_vars, nudge_vars, neighbour_vars, tools_vars>>

(***************************************************************************)
(* POST /models/retrain.                                                   *)
(***************************************************************************)
\* should_retrain_models' count query raises: HTTP 500
RetrainQueryFails(r) ==
    /\ serving /\ pc[r] = "idle"
    /\ QueryRuns
    /\ pc' = [pc EXCEPT ![r] = "answered"]
    /\ rresp' = [rresp EXCEPT ![r] = [status |-> "error", checked |-> FALSE, should |-> FALSE]]
    /\ UNCHANGED <<impl, now, serving, db, newSince, last_model_update, is_initialized,
                   engines, nextBuild, build, qpc, qin, qresp>>
    /\ UNCHANGED <<fusion_vars, path_vars, nudge_vars, neighbour_vars, tools_vars>>

\* force is false and should_retrain_models answers false
RetrainSkipped(r) ==
    /\ serving /\ pc[r] = "idle"
    /\ ~should_retrain_models
    /\ pc' = [pc EXCEPT ![r] = "answered"]
    /\ rresp' = [rresp EXCEPT ![r] = [status |-> "skipped", checked |-> TRUE, should |-> FALSE]]
    /\ UNCHANGED <<impl, now, serving, db, newSince, last_model_update, is_initialized,
                   engines, nextBuild, build, qpc, qin, qresp>>
    /\ UNCHANGED <<fusion_vars, path_vars, nudge_vars, neighbour_vars, tools_vars>>

\* force, or should_retrain_models answers true: await advanced_ai.initialize
RetrainModels(r) ==
    /\ serving /\ pc[r] = "idle"
    /\ impl = "models"
    /\ \E force \in BOOLEAN :
        /\ force \/ should_retrain_models
        /\ rresp' = [rresp EXCEPT ![r] =
                        [status |-> "pending", checked |-> ~force, should |-> ~force]]
    /\ BeginInitialize(r)
    /\ UNCHANGED <<impl, now, serving, db, newSince, last_model_update, is_initialized,
                   engines, qpc, qin, qresp>>
    /\ UNCHANGED <<fusion_vars, path_vars, nudge_vars, neighbour_vars, tools_vars>>

RetrainPlaceholder(r) ==
    /\ serving /\ pc[r] = "idle"
    /\ impl = "placeholder"
    /\ \E force \in BOOLEAN :
        /\ force \/ should_retrain_models
        /\ rresp' = [rresp EXCEPT ![r] =
                        [status |-> "success", checked |-> ~force, should |-> ~force]]
    /\ initialize_placeholder
    /\ pc' = [pc EXCEPT ![r] = "answered"]
    /\ UNCHANGED <<impl, now, serving, db, engines, nextBuild, build, qpc, qin, qresp>>
    /\ UNCHANGED <<fusion_vars, path_vars, nudge_vars, neighbour_vars, tools_vars>>

\* the response is out; the worker takes the next request
RetrainReturns(r) ==
    /\ pc[r] = "answered"
    /\ pc' = [pc EXCEPT ![r] = "idle"]
    /\ rresp' = [rresp EXCEPT ![r] = NoAnswer]
    /\ build' = [build EXCEPT ![r] = NoBuild]
    /\ UNCHANGED <<impl, now, serving, db, newSince, last_model_update, is_initialized,
                   engines, nextBuild, qpc, qin, qresp>>
    /\ UNCHANGED <<fusion_vars, path_vars, nudge_vars, neighbour_vars, tools_vars>>

(***************************************************************************)
(* AdvancedAIOrchestrator.get_advanced_recommendations, module "models".   *)
(***************************************************************************)
\* the except branch of get_advanced_recommendations
FallbackResponse ==
    [recommendations |-> <<>>,
     predictions |-> [engagement |-> 50, completion_probability |-> 50, churn_risk |-> 50],
     optimized_nudge |-> [message |-> "Continue learning!", type |-> "motivational"],
     confidence_score |-> 300]

\* the part after the last await
advanced_response(q, optimized_nudge) ==
    IF ~optimized_nudge.ok THEN FallbackResponse
    ELSE [recommendations |->
              combine_recommendations(q.cf_recs, q.cb_recs, q.engagement_pred),
          predictions |-> [engagement |-> q.engagement_pred,
                           completion_probability |-> q.completion_pred,
                           churn_risk |-> q.churn_risk],
          optimized_nudge |-> optimized_nudge.value,
          confidence_score |->
              calculate_overall_confidence(q.cf_recs, q.cb_recs, q.engagement_pred)]

\* the engines are read one after the other with no await between them; the
\* call then suspends in optimize_nudge, at the fetch of the nudge history
ReadEngines(Inputs) ==
    /\ serving /\ qpc = "idle"
    /\ impl = "models"
    /\ \E in \in Inputs :
        LET raises == in.raises
            yield == in.yield
            scored == in.scored
            model_output == in.model_output
            behavior_data == in.behavior_data
            cf == get_user_recommendations(
                      collaborative_engine.user_item_matrix, "cf" \in raises, yield)
            cb == get_content_recommendations(
                      content_engine.content_features, "cb" \in raises, scored)
            eng == predict_engagement(
                      behavioral_engine.fitted, "pred" \in raises, model_output)
            comp == predict_completion_probability(
                      behavioral_engine.fitted, "pred" \in raises, model_output)
            churn == predict_churn_risk(
                      behavioral_engine.fitted, "pred" \in raises, model_output)
        IN  /\ ("cf" \in raises \/ yield # <<>>)
                  => collaborative_engine.user_item_matrix # Unbuilt
            /\ ("cb" \in raises \/ scored # <<>>)
                  => content_engine.content_features # Unbuilt
            /\ "pred" \in raises => behavioral_engine.fitted # Unbuilt
            /\ IF cf.ok /\ cb.ok /\ eng.ok /\ comp.ok /\ churn.ok
                 THEN /\ qin' = [uninitialized |-> last_model_update = None,
                                 rebuilding |-> CleanRebuild,
                                 seen |-> engines,
                                 raises |-> raises,
                                 yield |-> yield, scored |-> scored,
                                 model_output |-> model_output,
                                 behavior_data |-> behavior_data,
                                 cf_recs |-> cf.value, cb_recs |-> cb.value,
                                 engagement_pred |-> eng.value,
                                 completion_pred |-> comp.value,
                                 churn_risk |-> churn.value]
                      /\ qpc' = "nudge"
                      /\ UNCHANGED qresp
                 ELSE /\ qin' = [uninitialized |-> last_model_update = None,
                                 rebuilding |-> CleanRebuild,
                                 seen |-> engines,
                                 raises |-> raises,
                                 yield |-> yield, scored |-> scored,
                                 model_output |-> model_output,
                                 behavior_data |-> behavior_data]
                      /\ qpc' = "answered"
                      /\ qresp' = FallbackResponse
    /\ UNCHANGED <<impl, now, serving, db, newSince, last_model_update, is_initialized,
                   engines, nextBuild, pc, build, rresp>>
    /\ UNCHANGED <<fusion_vars, path_vars, nudge_vars, neighbour_vars, tools_vars>>

NudgeReturns ==
    /\ qpc = "nudge"
    /\ \E fetched \in BOOLEAN, effectiveness_data \in EffectivenessData :
        /\ ~fetched => effectiveness_data = <<>>
        /\ qresp' = advanced_response(
                        qin, optimize_nudge(qin.behavior_data, fetched, effectiveness_data))
        /\ qin' = [qin EXCEPT !.raises = IF fetched THEN @ ELSE @ \cup {"nudge"}]
    /\ qpc' = "answered"
    /\ UNCHANGED <<impl, now, serving, db, newSince, last_model_update, is_initialized,
                   engines, nextBuild, pc, build, rresp>>
    /\ UNCHANGED <<fusion_vars, path_vars, nudge_vars, neighbour_vars, tools_vars>>

(***************************************************************************)
(* get_advanced_recommendations, module "placeholder": no await.           *)
(***************************************************************************)
placeholder_response(initialized, predictions) ==
    IF ~initialized
        THEN [recommendations |-> <<>>,
              predictions |-> <<>>,
              optimized_nudge |->
                  [message |-> "Please complete your profile for better recommendations."],
              confidence_score |-> 100]
        ELSE [recommendations |-> << <<101, 92>>, <<205, 88>> >>,
              predictions |-> predictions,
              optimized_nudge |->
                  [message |->
                      IF predictions.churn_risk > 60 THEN "Let's get back on track!"
                      ELSE IF predictions.engagement < 40 THEN "Consistency is key."
                      ELSE "Based on your progress, here are some advanced topics to explore!"],
              confidence_score |->
                  (predictions.engagement + (100 - predictions.churn_risk)) * 5]

RecommendPlaceholder ==
    /\ serving /\ qpc = "idle"
    /\ impl = "placeholder"
    /\ \E predictions \in PlaceholderOutputs :
        /\ is_initialized \/ predictions = CHOOSE p \in PlaceholderOutputs : TRUE
        /\ qresp' = placeholder_response(is_initialized, predictions)
    /\ qin' = [uninitialized |-> ~is_initialized]
    /\ qpc' = "answered"
    /\ UNCHANGED <<impl, now, serving, db, newSince, last_model_update, is_initialized,
                   engines, nextBuild, pc, build, rresp>>
    /\ UNCHANGED <<fusion_vars, path_vars, nudge_vars, neighbour_vars, tools_vars>>

RecommendReturns ==
    /\ qpc = "answered"
    /\ qpc' = "idle"
    /\ qin' = NoInput
    /\ qresp' = NoResponse
    /\ UNCHANGED <<impl, now, serving, db, newSince, last_model_update, is_initialized,
                   engines, nextBuild, pc, build, rresp>>
    /\ UNCHANGED <<fusion_vars, path_vars, nudge_vars, neighbour_vars, tools_vars>>

Startup ==
    \/ StartupFails
    \/ StartupModels
    \/ StartupPlaceholder

Rebuild(Workers) ==
    \/ \E b \in Workers \cup {"startup"} : build_user_item_matrix(b)
    \/ \E b \in Workers \cup {"startup"} : build_content_features(b)
    \/ \E b \in Workers \cup {"startup"} : train_models(b)
    \/ \E r \in Workers : RetrainQueryFails(r)
    \/ \E r \in Workers : RetrainSkipped(r)
    \/ \E r \in Workers : RetrainModels(r)
    \/ \E r \in Workers : RetrainPlaceholder(r)
    \/ \E r \in Workers : RetrainReturns(r)

Recommend(Inputs) ==
    \/ ReadEngines(Inputs)
    \/ NudgeReturns
    \/ RecommendPlaceholder
    \/ RecommendReturns

\* concurrent retrain requests beside a recommendation request
Next ==
    \/ Startup
    \/ Rebuild(Requests)
    \/ Recommend(PlainInputs)

\* every table holds rows
InitLoaded == Init /\ db = [t \in Tables |-> TRUE]

Spec == InitLoaded /\ [][Next]_vars

\* recommendation requests of every kind beside one retrain worker
NextServe ==
    \/ Startup
    \/ Rebuild({"retrain1"})
    \/ Recommend(RequestInputs)

SpecServe == Init /\ [][NextServe]_vars

\* one retrain worker, the clock and the interactions table
NextRetrain ==
    \/ Startup
    \/ DbChange
    \/ Tick
    \/ RecordInteractions
    \/ Rebuild({"retrain1"})

SpecRetrain == Init /\ [][NextRetrain]_vars

(***************************************************************************)
(* _combine_recommendations on its own: the two lists as the engines hand  *)
(* them over (at most top_k=3 entries each, distinct ids, sorted by        *)
(* descending score), built up one entry at a time, then the call.         *)
(***************************************************************************)
FusionItems == 1..MaxItem
CfScores == {40, 80}
CbScores == {50, 60}
EngagementLevels == {50, 51}

OrchestratorIdle ==
    /\ OrchestratorInit
    /\ impl = "models"
    /\ db = [t \in Tables |-> FALSE]

FusionInit ==
    /\ fusion_cf = <<>>
    /\ fusion_cb = <<>>
    /\ fusion_engagement \in EngagementLevels
    /\ fusion_result = <<>>
    /\ fusion_pc = "args"

\* one more entry of a list sorted by descending score
Extended(recs, Scores) ==
    {Append(recs, <<id, score>>) : id \in FusionItems \ Keys(recs),
        score \in {x \in Scores : recs = <<>> \/ x <= recs[Len(recs)][2]}}

AppendCf ==
    /\ fusion_pc = "args"
    /\ Len(fusion_cf) < TopK
    /\ fusion_cf' \in Extended(fusion_cf, CfScores)
    /\ UNCHANGED <<fusion_cb, fusion_engagement, fusion_result, fusion_pc>>
    /\ UNCHANGED <<orchestrator_vars, path_vars, nudge_vars, neighbour_vars, tools_vars>>

AppendCb ==
    /\ fusion_pc = "args"
    /\ Len(fusion_cb) < TopK
    /\ fusion_cb' \in Extended(fusion_cb, CbScores)
    /\ UNCHANGED <<fusion_cf, fusion_engagement, fusion_result, fusion_pc>>
    /\ UNCHANGED <<orchestrator_vars, path_vars, nudge_vars, neighbour_vars, tools_vars>>

Combine ==
    /\ fusion_pc = "args"
    /\ fusion_result' = combine_recommendations(fusion_cf, fusion_cb, fusion_engagement)
    /\ fusion_pc' = "returned"
    /\ UNCHANGED <<fusion_cf, fusion_cb, fusion_engagement>>
    /\ UNCHANGED <<orchestrator_vars, path_vars, nudge_vars, neighbour_vars, tools_vars>>

NextFusion ==
    \/ AppendCf
    \/ AppendCb
    \/ Combine

InitFusion == OrchestratorIdle /\ FusionInit /\ PathIdle /\ NudgeIdle /\ NeighbourIdle /\ ToolsIdle

SpecFusion == InitFusion /\ [][NextFusion]_vars

(***************************************************************************)
(* Claims about the fusion.                                                *)
(***************************************************************************)
ScoreIn(recs, id) == IF id \in Keys(recs) THEN recs[IndexOf(recs, id)][2] ELSE 0

\* the score the fusion rule gives an item, in thousandths
FusedScore(id) ==
    LET w == IF fusion_engagement > 50 THEN 6 ELSE 4
    IN  w * ScoreIn(fusion_cf, id) + (10 - w) * ScoreIn(fusion_cb, id)

FusionCandidates == Keys(fusion_cf) \cup Keys(fusion_cb)

\* C10: every returned item is an item of one of the two lists and carries
\* cf_weight * cf_score + (1 - cf_weight) * cb_score (a missing score counts 0,
\* cf_weight is 0.6 above engagement 0.5 and 0.4 otherwise); the result holds
\* min(5, number of items) distinct items, in descending score order, and no
\* item left out scores higher than one returned.
C10_FusionScoresAndTopFive ==
    fusion_pc = "returned" =>
        LET r == fusion_result
        IN  /\ \A i \in 1..Len(r) :
                /\ r[i][1] \in FusionCandidates
                /\ r[i][2] = FusedScore(r[i][1])
            /\ \A i, j \in 1..Len(r) : i < j => r[i][2] >= r[j][2] /\ r[i][1] # r[j][1]
            /\ Len(r) = IF Cardinality(FusionCandidates) < 5
                            THEN Cardinality(FusionCandidates) ELSE 5
            /\ \A id \in FusionCandidates \ Keys(r) :
                   \A i \in 1..Len(r) : r[i][2] >= FusedScore(id)

\* C11: in the fused list two items with equal score stand in ascending
\* order of content id, in whatever order the lists named them.
C11_TiesByAscendingId ==
    fusion_pc = "returned" =>
        \A i, j \in 1..Len(fusion_result) :
            (i < j /\ fusion_result[i][2] = fusion_result[j][2])
                => fusion_result[i][1] < fusion_result[j][1]

\* six distinct items were offered at high engagement and the sixth was cut off
C10_Witness ==
    /\ fusion_pc = "returned"
    /\ Cardinality(FusionCandidates) > 5
    /\ Len(fusion_result) = 5
    /\ fusion_engagement > 50

(***************************************************************************)
(* GET /nudge/recommend-path: recommend_learning_path, one step per await. *)
(***************************************************************************)
\* get_user_profile: None when the user has no profile or the query raises
UserProfiles ==
    {None} \cup {Some([completed_lessons |-> c, preferred_topics |-> t]) : c, t \in BOOLEAN}

\* analyze_user_behavior: what it computes, or the record of its except branch
UserBehaviors == BehaviorInputs \cup {DefaultBehavior}

\* recommend_content: at most three lessons, [] when its query raises
ContentLists == {<<>>, <<11>>, <<11, 12>>, <<11, 12, 13>>}

PathErrorResponse(code) == [status_code |-> code]

generate_nudge_message(behavior_data) ==
    IF behavior_data.engagement_score < 30 THEN "re_engagement"
    ELSE IF behavior_data.completion_rate < 50 THEN "completion_encouragement"
    ELSE IF behavior_data.learning_velocity > 200 THEN "challenge_progression"
    ELSE "learning_continuation"

\* sum(confidence_factors), in hundredths
confidence_of(user_profile, behavior_data, recommended_content) ==
    (IF user_profile.completed_lessons THEN 30 ELSE 10)
    + (IF behavior_data.recent_sessions > 0 THEN 20 ELSE 10)
    + (IF user_profile.preferred_topics THEN 20 ELSE 10)
    + (IF recommended_content # <<>> THEN 30 ELSE 10)

priority_of(behavior_data) ==
    LET raw == ((100 - behavior_data.engagement_score) * 50
                + (100 - behavior_data.completion_rate) * 30) \div 100 + 20
    IN  IF raw < 100 THEN raw ELSE 100

\* what the fetchrow of the profile did: it answered a row, answered none,
\* or raised
ProfileFetches == {"row", "no_row", "raised"}

get_user_profile ==
    /\ lp_pc = "idle"
    /\ nudge_logs < MaxLogs
    /\ \E profile_fetch \in ProfileFetches, user_profile \in UserProfiles :
        /\ user_profile = None <=> profile_fetch # "row"
        /\ IF user_profile = None
            THEN /\ lp_resp' = PathErrorResponse(404)
                 /\ lp_pc' = "answered"
                 /\ lp' = [lp EXCEPT !.profile_fetch = profile_fetch]
            ELSE /\ lp' = [lp EXCEPT !.user_profile = user_profile,
                                     !.profile_fetch = profile_fetch]
                 /\ lp_pc' = "behavior"
                 /\ UNCHANGED lp_resp
    /\ UNCHANGED <<nudge_logs, orchestrator_vars, fusion_vars, nudge_vars, neighbour_vars, tools_vars>>

analyze_user_behavior ==
    /\ lp_pc = "behavior"
    /\ \E behavior_data \in UserBehaviors :
        lp' = [lp EXCEPT !.behavior_data = Some(behavior_data)]
    /\ lp_pc' = "content"
    /\ UNCHANGED <<lp_resp, nudge_logs, orchestrator_vars, fusion_vars, nudge_vars, neighbour_vars, tools_vars>>

\* recommend_content, then everything up to the fetch of the current path
recommend_content ==
    /\ lp_pc = "content"
    /\ \E recommended_content \in ContentLists :
        lp' = [lp EXCEPT
                 !.recommended_content = recommended_content,
                 !.nudge_type = generate_nudge_message(lp.behavior_data[1]),
                 !.confidence_score =
                     confidence_of(lp.user_profile[1], lp.behavior_data[1],
                                   recommended_content),
                 !.priority_score = priority_of(lp.behavior_data[1])]
    /\ lp_pc' = "path"
    /\ UNCHANGED <<lp_resp, nudge_logs, orchestrator_vars, fusion_vars, nudge_vars, neighbour_vars, tools_vars>>

\* the fetchrow of the current learning path: it raises, or answers a row or none
fetch_current_path ==
    /\ lp_pc = "path"
    /\ \E raised \in BOOLEAN, current_path_id \in {None, Some(7)} :
        IF raised
            THEN /\ current_path_id = None
                 /\ lp_resp' = PathErrorResponse(500)
                 /\ lp_pc' = "answered"
                 /\ UNCHANGED lp
            ELSE /\ lp' = [lp EXCEPT !.current_path_id = current_path_id]
                 /\ lp_pc' = "log"
                 /\ UNCHANGED lp_resp
    /\ UNCHANGED <<nudge_logs, orchestrator_vars, fusion_vars, nudge_vars, neighbour_vars, tools_vars>>

\* the INSERT into nudge_logs, then the return; "except Exception" turns a
\* failed insert into HTTP 500
log_nudge ==
    /\ lp_pc = "log"
    /\ \E inserted \in BOOLEAN :
        IF inserted
            THEN /\ nudge_logs' = nudge_logs + 1
                 /\ lp_resp' = [status_code |-> 200,
                                learning_path_id |-> lp.current_path_id,
                                next_lesson_id |->
                                    IF lp.recommended_content # <<>>
                                        THEN Some(lp.recommended_content[1]) ELSE None,
                                recommended_content |-> lp.recommended_content,
                                nudge_type |-> lp.nudge_type,
                                confidence_score |-> lp.confidence_score,
                                priority_score |-> lp.priority_score]
                 /\ UNCHANGED lp
            ELSE /\ lp' = [lp EXCEPT !.audit_failed = TRUE]
                 /\ lp_resp' = PathErrorResponse(500)
                 /\ UNCHANGED nudge_logs
    /\ lp_pc' = "answered"
    /\ UNCHANGED <<orchestrator_vars, fusion_vars, nudge_vars, neighbour_vars, tools_vars>>

PathReturns ==
    /\ lp_pc = "answered"
    /\ lp_pc' = "idle"
    /\ lp' = NoPathRequest
    /\ lp_resp' = NoPathResponse
    /\ UNCHANGED <<nudge_logs, orchestrator_vars, fusion_vars, nudge_vars, neighbour_vars, tools_vars>>

NextPath ==
    \/ get_user_profile
    \/ analyze_user_behavior
    \/ recommend_content
    \/ fetch_current_path
    \/ log_nudge
    \/ PathReturns

InitPath == OrchestratorIdle /\ FusionIdle /\ PathIdle /\ NudgeIdle /\ NeighbourIdle /\ ToolsIdle

SpecPath == InitPath /\ [][NextPath]_vars

\* C7: a request whose nudge_logs insert failed is still answered with its
\* recommendation (HTTP 200), never with a request error.
C7_AuditFailureIsNotSurfaced ==
    (lp_pc = "answered" /\ lp.audit_failed) => lp_resp.status_code = 200

(***************************************************************************)
(* NudgeOptimizationEngine.optimize_nudge on its own, over the arguments   *)
(* it can be given, in a process whose str hash is drawn when it starts    *)
(* (Python salts hash(str) per process).                                   *)
(***************************************************************************)
\* behavior_data as _get_user_segment reads it, on and around its thresholds
NudgeBehaviors ==
    [engagement_score : {20, 30, 70, 80}, completion_rate : {20, 30, 80, 90},
     learning_velocity : {200, 300}]

\* rows of nudge_logs of the trailing 30 days that carry a user response
NudgeHistories ==
    EffectivenessData \cup
        {<<[nudge_type |-> "motivational", effectiveness_score |-> 20],
           [nudge_type |-> "urgency", effectiveness_score |-> 90],
           [nudge_type |-> "urgency", effectiveness_score |-> 70]>>}

RECURSIVE SumScores(_)
SumScores(rows) ==
    IF rows = <<>> THEN 0 ELSE Head(rows).effectiveness_score + SumScores(Tail(rows))

\* template_idx = hash(user_id) % len(templates); every style has three templates
generate_personalized_nudge(nudge_type, user_id) == str_hash[user_id] % TemplateCount

\* in ten-thousandths: 0.5 without data, else mean * min(1.0, sample_size / 50.0)
calculate_nudge_confidence(nudge_type, effectiveness_data) ==
    LET type_data == SelectSeq(effectiveness_data, LAMBDA r : r.nudge_type = nudge_type)
        sample_size == Len(type_data)
    IN  IF effectiveness_data = <<>> \/ type_data = <<>> THEN 5000
        ELSE (SumScores(type_data) \div sample_size)
                 * (IF sample_size < FullSample THEN sample_size ELSE FullSample) * 2

\* the whole dict optimize_nudge returns; message is the index of the template
personalized_nudge(user_id, behavior_data, fetched, effectiveness_data) ==
    LET nudge == optimize_nudge(behavior_data, fetched, effectiveness_data).value
    IN  IF ~fetched
            THEN [message |-> -1, type |-> nudge.type, confidence |-> 5000,
                  user_segment |-> nudge.user_segment]
            ELSE [message |-> generate_personalized_nudge(nudge.type, user_id),
                  type |-> nudge.type,
                  confidence |-> calculate_nudge_confidence(nudge.type, effectiveness_data),
                  user_segment |-> nudge.user_segment]

NudgeStart ==
    /\ str_hash \in [NudgeUsers -> 0..MaxHash]
    /\ ng_pc = "idle"
    /\ ng_args = NoNudgeArgs
    /\ ng_result = NoNudge
    /\ ng_prev = [user_id |-> "", nudge |-> NoNudge]

\* the service is restarted: a new process, a new hash salt
ProcessRestart ==
    /\ ng_pc = "idle"
    /\ str_hash' \in [NudgeUsers -> 0..MaxHash]
    /\ UNCHANGED <<ng_pc, ng_args, ng_result, ng_prev>>
    /\ UNCHANGED <<orchestrator_vars, fusion_vars, path_vars, neighbour_vars, tools_vars>>

OptimizeNudge ==
    /\ ng_pc = "idle"
    /\ \E user_id \in NudgeUsers, behavior_data \in NudgeBehaviors,
          fetched \in BOOLEAN, effectiveness_data \in NudgeHistories :
        /\ ~fetched => effectiveness_data = <<>>
        /\ ng_args' = [user_id |-> user_id, behavior_data |-> behavior_data,
                       fetched |-> fetched, effectiveness_data |-> effectiveness_data]
        /\ ng_result' = personalized_nudge(user_id, behavior_data, fetched,
                                           effectiveness_data)
    /\ ng_pc' = "returned"
    /\ UNCHANGED <<str_hash, ng_prev>>
    /\ UNCHANGED <<orchestrator_vars, fusion_vars, path_vars, neighbour_vars, tools_vars>>

NudgeDone ==
    /\ ng_pc = "returned"
    /\ ng_pc' = "idle"
    /\ ng_prev' = [user_id |-> ng_args.user_id, nudge |-> ng_result]
    /\ ng_args' = NoNudgeArgs
    /\ ng_result' = NoNudge
    /\ UNCHANGED str_hash
    /\ UNCHANGED <<orchestrator_vars, fusion_vars, path_vars, neighbour_vars, tools_vars>>

NextNudge ==
    \/ ProcessRestart
    \/ OptimizeNudge
    \/ NudgeDone

InitNudge == OrchestratorIdle /\ FusionIdle /\ PathIdle /\ NudgeStart /\ NeighbourIdle /\ ToolsIdle

SpecNudge == InitNudge /\ [][NextNudge]_vars

(***************************************************************************)
(* Claims about the nudge engine.                                          *)
(***************************************************************************)
\* C15: the segment is high_performer when engagement > 0.7 and completion
\* > 0.8; otherwise at_risk when engagement < 0.3 or completion < 0.3;
\* otherwise fast_learner when velocity > 2; otherwise steady_learner.  In
\* particular a user with velocity > 2 and engagement < 0.3 is at_risk.
C15_SegmentFirstMatchWins ==
    (ng_pc = "returned" /\ ng_args.fetched) =>
        LET b == ng_args.behavior_data
            segment == ng_result.user_segment
            high == b.engagement_score > 70 /\ b.completion_rate > 80
            risk == b.engagement_score < 30 \/ b.completion_rate < 30
            fast == b.learning_velocity > 200
        IN  /\ high => segment = "high_performer"
            /\ (~high /\ risk) => segment = "at_risk"
            /\ (~high /\ ~risk /\ fast) => segment = "fast_learner"
            /\ (~high /\ ~risk /\ ~fast) => segment = "steady_learner"
            /\ (fast /\ b.engagement_score < 30) => segment = "at_risk"

\* a user with velocity > 2 and engagement < 0.3 was segmented
C15_Witness ==
    /\ ng_pc = "returned" /\ ng_args.fetched
    /\ ng_args.behavior_data.learning_velocity > 200
    /\ ng_args.behavior_data.engagement_score < 30
    /\ ng_args.behavior_data.completion_rate > 80
    /\ ng_result.user_segment = "at_risk"

StaticStyle(segment) ==
    CASE segment = "high_performer" -> "social"
      [] segment = "at_risk" -> "motivational"
      [] segment = "fast_learner" -> "educational"
      [] segment = "steady_learner" -> "urgency"

\* C16: with no effectiveness history the style is the static table's entry
\* for the user's segment.
C16_StaticStyleWithoutHistory ==
    (ng_pc = "returned" /\ ng_args.fetched /\ ng_args.effectiveness_data = <<>>)
        => ng_result.type = StaticStyle(ng_result.user_segment)

RecordedStyles(history) == {history[i].nudge_type : i \in 1..Len(history)}

\* mean effectiveness of a style times min(1, sample_size / 50), times 50
DiscountedMean(history, style) ==
    LET rows == SelectSeq(history, LAMBDA r : r.nudge_type = style)
    IN  (SumScores(rows) \div Len(rows)) * (IF Len(rows) < 50 THEN Len(rows) ELSE 50)

\* C17: with effectiveness history the style chosen is a style with recorded
\* outcomes whose discounted mean effectiveness is the highest.
C17_BestStyleFromHistory ==
    (ng_pc = "returned" /\ ng_args.fetched /\ ng_args.effectiveness_data # <<>>)
        => LET history == ng_args.effectiveness_data
           IN  /\ ng_result.type \in RecordedStyles(history)
               /\ \A style \in RecordedStyles(history) :
                      DiscountedMean(history, ng_result.type)
                          >= DiscountedMean(history, style)

\* C18: a call of the nudge engine for the user and style of the call before
\* chooses the template that call chose, restarts of the service included.
C18_SameTemplateOnEveryCall ==
    (/\ ng_pc = "returned" /\ ng_args.fetched
     /\ ng_prev.user_id = ng_args.user_id
     /\ ng_prev.nudge.user_segment # "default"
     /\ ng_prev.nudge.type = ng_result.type)
        => ng_result.message = ng_prev.nudge.message

(***************************************************************************)
(* Claims about rebuilds.                                                  *)
(***************************************************************************)
\* C1: a request that reads the engines while a rebuild is suspended at one
\* of its awaits reads state of one build only: the matrix, its
\* similarities, the content index and the predictor all carry the same
\* build (the one before the rebuild or the new one).
C1_ReaderSeesOneVersion ==
    (impl = "models" /\ qpc \in {"nudge", "answered"} /\ qin.rebuilding)
        => Cardinality(Tags(qin.seen)) = 1

\* C2: at most one rebuild is in progress at any time.
C2_OneRebuildAtATime == Cardinality(Rebuilding) <= 1

\* C3: a retrain whose rebuild had a failing step answers with the engines
\* and last_model_update exactly as they were when the rebuild began, and
\* without an error.
C3_FailedRebuildChangesNothing ==
    \A r \in Requests :
        (pc[r] = "answered" /\ build[r].id # 0 /\ build[r].failed)
            => /\ <<engines, last_model_update>> = build[r].before
               /\ rresp[r].status # "error"

\* C4: when a rebuild in which nothing failed has completed and set
\* last_model_update, no engine holds state of an earlier build: each
\* attribute was written by this rebuild or holds nothing.
C4_RebuildReplacesEveryEngine ==
    \A r \in Requests :
        (pc[r] = "answered" /\ build[r].id # 0 /\ ~build[r].failed
                /\ last_model_update # None)
            => Tags(engines) \subseteq {build[r].id, Unbuilt}

\* C8: whenever a retrain request consults should_retrain_models, the answer
\* is true exactly when the models were never trained, or more than 7 days
\* have passed since last_model_update, or more than 100 interactions have
\* been recorded since.
C8_RetrainTrigger ==
    [][\A r \in Requests :
          (pc[r] = "idle" /\ pc'[r] # "idle" /\ rresp'[r].checked)
              => (rresp'[r].should <=>
                      \/ last_model_update = None
                      \/ now - last_model_update[1] > 7
                      \/ newSince > 100)]_vars

\* C9: right after a rebuild that reports success (the startup initialize
\* returning, or a retrain answering "success"), with no interaction
\* recorded since, should_retrain_models is false.
C9_FreshAfterSuccess ==
    [][(/\ newSince' = 0
        /\ \/ pc["startup"] # "idle" /\ pc'["startup"] = "idle"
                                     /\ last_model_update' # None
           \/ \E r \in Requests : /\ pc[r] # "answered"
                                  /\ pc'[r] = "answered"
                                  /\ rresp'[r].status = "success")
          => ~should_retrain_models']_vars

(***************************************************************************)
(* Claims about get_advanced_recommendations.                              *)
(***************************************************************************)
PredictionFields == {"engagement", "completion_probability", "churn_risk"}

\* C5: a request answered while initialization has not completed gets empty
\* recommendations, the three predictions at 0.5 each, a nudge, and a
\* confidence of at most 0.5.
C5_DegradedBeforeInitialized ==
    (qpc = "answered" /\ qin.uninitialized)
        => /\ qresp.recommendations = <<>>
           /\ qresp.confidence_score <= 500
           /\ "message" \in DOMAIN qresp.optimized_nudge
           /\ DOMAIN qresp.predictions = PredictionFields
           /\ \A f \in PredictionFields : qresp.predictions[f] = 50

\* what a recommender contributes: nothing when it failed or has no state
Contributed(state, failed, rows) == IF failed \/ state = Unbuilt THEN <<>> ELSE rows

\* C6: whichever sub-engines fail, the call returns recommendations,
\* predictions, nudge and confidence; a failed recommender contributes no
\* item and the other's items are all returned, a failed predictor leaves
\* the three predictions at 0.5 and a working one's outputs are returned as
\* computed, a failed nudge engine leaves the default nudge and a working
\* one's nudge is the one for the user's segment.
C6_SubEngineFailureIsContained ==
    (impl = "models" /\ qpc = "answered")
        => LET cf == Contributed(qin.seen[1].user_item_matrix, "cf" \in qin.raises, qin.yield)
               cb == Contributed(qin.seen[2].content_features, "cb" \in qin.raises, qin.scored)
           IN  /\ DOMAIN qresp = {"recommendations", "predictions",
                                  "optimized_nudge", "confidence_score"}
               /\ Keys(qresp.recommendations) = Keys(cf) \cup Keys(cb)
               /\ "pred" \in qin.raises
                     => \A f \in PredictionFields : qresp.predictions[f] = 50
               /\ ("pred" \notin qin.raises /\ qin.seen[3].fitted # Unbuilt)
                     => qresp.predictions = qin.model_output
               /\ "nudge" \in qin.raises => qresp.optimized_nudge = DefaultNudge
               /\ "nudge" \notin qin.raises
                     => /\ "user_segment" \in DOMAIN qresp.optimized_nudge
                        /\ qresp.optimized_nudge.user_segment
                               = get_user_segment(qin.behavior_data)

\* the predictor failed, both recommenders and the nudge engine worked
C6_Witness ==
    /\ impl = "models" /\ qpc = "answered"
    /\ qin.raises = {"pred"}
    /\ Len(qresp.recommendations) = 3
    /\ qresp.optimized_nudge.user_segment = "high_performer"

\* C12: the confidence score of every response lies within [0,1].
C12_ConfidenceInUnitInterval ==
    qpc = "answered"
        => (0 <= qresp.confidence_score /\ qresp.confidence_score <= 1000)

\* C13: each prediction of every response lies within [0,1].
C13_PredictionsInUnitInterval ==
    qpc = "answered"
        => \A f \in DOMAIN qresp.predictions :
               0 <= qresp.predictions[f] /\ qresp.predictions[f] <= 100

Capped(x) == IF x < 100 THEN x ELSE 100

\* mean of min(2 x completion_rate, 1), min(velocity / 3, 1), min(sessions / 20, 1)
ColdStartMean(b) ==
    (Capped(2 * b.completion_rate) + Capped(b.learning_velocity \div 3)
        + Capped(5 * b.recent_sessions)) \div 3

\* C14: when the predictor is not trained, or feature preparation failed,
\* the predicted engagement is the mean of the three capped behaviour
\* factors, and completion_probability and churn_risk are 0.5.
C14_ColdStartPredictions ==
    (/\ impl = "models" /\ qpc = "answered"
     /\ (qin.seen[3].fitted = Unbuilt \/ "pred" \in qin.raises))
        => /\ qresp.predictions.engagement = ColdStartMean(qin.behavior_data)
           /\ qresp.predictions.completion_probability = 50
           /\ qresp.predictions.churn_risk = 50


(***************************************************************************)
(* CollaborativeFilteringEngine.get_user_recommendations, in the module    *)
(* the service loads (ai_microservice/models/advanced_ai.py) and in the    *)
(* standalone module collaborative_filtering.py.  A user is its row        *)
(* position in the matrix; id 0 is a user the matrix has no row for.       *)
(* Rows come in three kinds, named after how they compare with the         *)
(* requester's row: "same" is equal to it, "near" shares one item, "far"   *)
(* shares none.  The requester of a call is always a user of kind "same".  *)
(***************************************************************************)
CfModules == {"advanced_ai", "collaborative_filtering"}
UserKinds == {"same", "near", "far"}
Matrices == UNION {[1..n -> UserKinds] : n \in 0..MaxUsers}

\* the interaction scores of a row over content 1..7, in hundredths
interaction_row(kind) ==
    CASE kind = "same" -> <<100, 0, 0, 0, 0, 0, 0>>
      [] kind = "near" -> <<100, 100, 0, 100, 100, 0, 0>>
      [] kind = "far"  -> <<50, 50, 100, 0, 100, 100, 100>>

\* u . v and the cosine of two rows, in hundredths, rounded down; the rows
\* are taken in halves so that the products stay small
RECURSIVE dot(_, _)
dot(u, v) ==
    IF u = <<>> THEN 0
    ELSE (Head(u) \div 50) * (Head(v) \div 50) + dot(Tail(u), Tail(v))

\* a similarity that divides by the first row's length alone
cosine_by_own_norm(u, v) == (100 * dot(u, v)) \div dot(u, u)

\* sklearn's cosine_similarity of two rows: u . v / (|u| |v|)
cosine_similarity(u, v) ==
    CHOOSE c \in 0..100 :
        /\ c * c * dot(u, u) * dot(v, v) <= 10000 * dot(u, v) * dot(u, v)
        /\ c = 100 \/ (c + 1) * (c + 1) * dot(u, u) * dot(v, v)
                        > 10000 * dot(u, v) * dot(u, v)

KindSimilarity ==
    [k \in UserKinds |-> [l \in UserKinds |->
        cosine_similarity(interaction_row(k), interaction_row(l))]]

\* self.user_similarity_matrix, over the rows as they stand
user_similarity_matrix(rows) ==
    [u \in 1..Len(rows) |-> [v \in 1..Len(rows) |-> KindSimilarity[rows[u]][rows[v]]]]

\* user_similarities = self.user_similarity_matrix[user_idx]
user_similarities(rows, user_idx) == user_similarity_matrix(rows)[user_idx]

\* np.argsort(user_similarities)[::-1], cut after k places: every order of
\* the users by descending similarity; argsort does not say which of two
\* equal values comes first
RECURSIVE argsort_descending(_, _, _)
argsort_descending(sims, left, k) ==
    IF k = 0 \/ left = {} THEN {<<>>}
    ELSE UNION {{<<i>> \o rest : rest \in argsort_descending(sims, left \ {i}, k - 1)} :
                    i \in {j \in left : \A m \in left : sims[m] <= sims[j]}}

\* argsort(...)[::-1][1:6]
similar_users_of(rows, user_idx) ==
    {SubSeq(order, 2, Len(order)) :
        order \in argsort_descending(user_similarities(rows, user_idx), 1..Len(rows),
                                     NeighbourCount + 1)}

\* a test that forgets what the requester has interacted with
liked_whatever_own(module, own, theirs, content_id) ==
    IF module = "advanced_ai" THEN theirs[content_id] > 50
    ELSE theirs[content_id] > 0

\* the test on one item of a similar user, and what the item gains
liked(module, own, theirs, content_id) ==
    IF module = "advanced_ai"
        THEN theirs[content_id] > 50 /\ own[content_id] = 0
        ELSE theirs[content_id] > 0 /\ ~(own[content_id] > 0)

gain(module, theirs, similarity_score, content_id) ==
    IF module = "advanced_ai" THEN theirs[content_id] * similarity_score
    ELSE similarity_score

\* the inner loop over the items of one similar user
RECURSIVE add_items(_, _, _, _, _, _)
add_items(recommendations, module, own, theirs, similarity_score, content_id) ==
    IF content_id > Len(theirs) THEN recommendations
    ELSE add_items(
            IF liked(module, own, theirs, content_id)
                THEN DictAdd(recommendations, content_id,
                             gain(module, theirs, similarity_score, content_id))
                ELSE recommendations,
            module, own, theirs, similarity_score, content_id + 1)

\* the outer loop over similar_users
RECURSIVE add_similar_users(_, _, _, _, _)
add_similar_users(recommendations, module, rows, user_idx, similar_users) ==
    IF similar_users = <<>> THEN recommendations
    ELSE add_similar_users(
            add_items(recommendations, module,
                      interaction_row(rows[user_idx]),
                      interaction_row(rows[Head(similar_users)]),
                      user_similarities(rows, user_idx)[Head(similar_users)], 1),
            module, rows, user_idx, Tail(similar_users))

neighbour_recommendations(module, rows, user_idx, similar_users) ==
    FirstN(SortedDesc(add_similar_users(<<>>, module, rows, user_idx, similar_users)),
           IF module = "advanced_ai" THEN top_k ELSE n_recommendations)

NeighbourStart ==
    /\ nb_module \in CfModules
    /\ nb_matrix = NoMatrix
    /\ nb_user = 0
    /\ nb_pc = "args"
    /\ nb_similar_users = <<>>
    /\ nb_result = NoRecommendations

\* build_user_item_matrix: the service's module also computes the
\* similarities, and leaves the engine as it was when there are no rows.
\* A build replaces the matrix whole: the first build of an engine reaches
\* every matrix a later one would.
BuildUserItemMatrix ==
    /\ nb_pc = "args"
    /\ ~nb_matrix.built
    /\ \E rows \in Matrices :
        nb_matrix' =
            IF nb_module = "advanced_ai"
                THEN IF rows = <<>> THEN nb_matrix
                     ELSE [built |-> TRUE, similar |-> TRUE, rows |-> rows]
                ELSE [built |-> TRUE, similar |-> FALSE, rows |-> rows]
    /\ UNCHANGED <<nb_module, nb_user, nb_pc, nb_similar_users, nb_result>>
    /\ UNCHANGED <<orchestrator_vars, fusion_vars, path_vars, nudge_vars, tools_vars>>

\* calculate_user_similarity of the standalone module
CalculateUserSimilarity ==
    /\ nb_pc = "args"
    /\ nb_module = "collaborative_filtering"
    /\ nb_matrix.built
    /\ nb_matrix' = [nb_matrix EXCEPT !.similar = TRUE]
    /\ UNCHANGED <<nb_module, nb_user, nb_pc, nb_similar_users, nb_result>>
    /\ UNCHANGED <<orchestrator_vars, fusion_vars, path_vars, nudge_vars, tools_vars>>

\* get_user_recommendations(user_id)
GetUserRecommendations ==
    /\ nb_pc = "args"
    /\ nb_pc' = "returned"
    /\ \E user_id \in 0..MaxUsers :
        /\ user_id \in 1..Len(nb_matrix.rows) => nb_matrix.rows[user_id] = "same"
        /\ nb_user' = user_id
        /\ IF ~nb_matrix.built
             THEN \* the service's module tests for None; the standalone one
                  \* reads self.user_index, which only a build creates
                  /\ nb_similar_users' = <<>>
                  /\ nb_result' = [raised |-> nb_module = "collaborative_filtering",
                                   recs |-> <<>>]
           ELSE IF user_id \notin 1..Len(nb_matrix.rows)
             THEN /\ nb_similar_users' = <<>>
                  /\ nb_result' = [raised |-> FALSE, recs |-> <<>>]
           ELSE IF ~nb_matrix.similar
             THEN \* self.user_similarity_matrix is still None
                  /\ nb_similar_users' = <<>>
                  /\ nb_result' = [raised |-> TRUE, recs |-> <<>>]
           ELSE \E similar_users \in similar_users_of(nb_matrix.rows, user_id) :
                  /\ nb_similar_users' = similar_users
                  /\ nb_result' =
                        [raised |-> FALSE,
                         recs |-> neighbour_recommendations(nb_module, nb_matrix.rows,
                                                            user_id, similar_users)]
    /\ UNCHANGED <<nb_module, nb_matrix>>
    /\ UNCHANGED <<orchestrator_vars, fusion_vars, path_vars, nudge_vars, tools_vars>>

\* the caller is done with the answer
NeighboursDone ==
    /\ nb_pc = "returned"
    /\ nb_pc' = "args"
    /\ nb_user' = 0
    /\ nb_similar_users' = <<>>
    /\ nb_result' = NoRecommendations
    /\ UNCHANGED <<nb_module, nb_matrix>>
    /\ UNCHANGED <<orchestrator_vars, fusion_vars, path_vars, nudge_vars, tools_vars>>

NextNeighbours ==
    \/ BuildUserItemMatrix
    \/ CalculateUserSimilarity
    \/ GetUserRecommendations
    \/ NeighboursDone

InitNeighbours == OrchestratorIdle /\ FusionIdle /\ PathIdle /\ NudgeIdle /\ NeighbourStart /\ ToolsIdle

SpecNeighbours == InitNeighbours /\ [][NextNeighbours]_vars

(***************************************************************************)
(* Claims about the collaborative engine.                                  *)
(***************************************************************************)
\* C19: a call for a user without history, one the built matrix has no row
\* for or one asked about before any matrix was built, returns the empty
\* list and does not raise.
C19_NoHistoryGivesEmptyList ==
    (nb_pc = "returned" /\ (~nb_matrix.built \/ nb_user \notin 1..Len(nb_matrix.rows)))
        => (~nb_result.raised /\ nb_result.recs = <<>>)

\* the users a call that got as far as choosing neighbours has used
UsedNeighbours == {nb_similar_users[i] : i \in 1..Len(nb_similar_users)}

NeighboursChosen ==
    /\ nb_pc = "returned"
    /\ nb_matrix.built
    /\ nb_matrix.similar
    /\ nb_user \in 1..Len(nb_matrix.rows)

\* C20: the neighbours a call uses are the five (or, in a smaller matrix,
\* all) other users most similar to the requester: the requester is not
\* among them, and no user left out is more similar than one taken.
C20_NeighboursAreMostSimilarOthers ==
    NeighboursChosen =>
        LET others == (1..Len(nb_matrix.rows)) \ {nb_user}
            sims == user_similarities(nb_matrix.rows, nb_user)
        IN  /\ nb_user \notin UsedNeighbours
            /\ Cardinality(UsedNeighbours) =
                    (IF Cardinality(others) < NeighbourCount
                        THEN Cardinality(others) ELSE NeighbourCount)
            /\ \A u \in UsedNeighbours : \A v \in others \ UsedNeighbours :
                    sims[v] <= sims[u]

\* the share of the neighbours from place i on in the score of an item
RECURSIVE NeighbourSum(_, _)
NeighbourSum(content_id, i) ==
    IF i > Len(nb_similar_users) THEN 0
    ELSE LET theirs == interaction_row(nb_matrix.rows[nb_similar_users[i]])
             sim == user_similarities(nb_matrix.rows, nb_user)[nb_similar_users[i]]
         IN  (IF theirs[content_id] > 50 THEN theirs[content_id] * sim ELSE 0)
                + NeighbourSum(content_id, i + 1)

\* C21: every item the service's collaborative engine returns has score 0
\* in the requester's row and a score above 0.5 in the row of a neighbour
\* used; its score is the sum of score times similarity over those
\* neighbours; at most top_k items come back, in descending order of score.
C21_ReturnedItemsAndScores ==
    (NeighboursChosen /\ nb_module = "advanced_ai") =>
        LET own == interaction_row(nb_matrix.rows[nb_user])
            recs == nb_result.recs
        IN  /\ Len(recs) <= top_k
            /\ \A i \in 1..Len(recs) :
                /\ own[recs[i][1]] = 0
                /\ \E u \in UsedNeighbours :
                        interaction_row(nb_matrix.rows[u])[recs[i][1]] > 50
                /\ recs[i][2] = NeighbourSum(recs[i][1], 1)
                /\ \A j \in 1..Len(recs) : i < j => recs[i][2] >= recs[j][2]

\* a call that found more than top_k items and returned top_k of them, one
\* of them liked by two neighbours
C21_Witness ==
    /\ NeighboursChosen
    /\ nb_module = "advanced_ai"
    /\ Len(nb_result.recs) = top_k
    /\ \E i \in 1..Len(nb_result.recs) :
        Cardinality({u \in UsedNeighbours :
            interaction_row(nb_matrix.rows[u])[nb_result.recs[i][1]] > 50}) >= 2
    /\ Cardinality({c \in 1..7 : NeighbourSum(c, 1) > 0}) > top_k

\* C22: in a built similarity matrix sim(u, v) = sim(v, u) for all users u
\* and v of the matrix.
C22_SimilarityIsSymmetric ==
    (nb_matrix.built /\ nb_matrix.similar) =>
        LET sim == user_similarity_matrix(nb_matrix.rows)
        IN  \A u, v \in 1..Len(nb_matrix.rows) : sim[u][v] = sim[v][u]

\* a built matrix with two users whose rows differ in length and overlap
C22_Witness ==
    /\ nb_matrix.built
    /\ nb_matrix.similar
    /\ \E u, v \in 1..Len(nb_matrix.rows) :
        /\ nb_matrix.rows[u] = "same"
        /\ nb_matrix.rows[v] = "far"
        /\ user_similarity_matrix(nb_matrix.rows)[u][v] \in 1..99

(***************************************************************************)
(* Claims about the outcomes of GET /nudge/recommend-path.                 *)
(***************************************************************************)
\* C26: a request ends as not found exactly when the user has no profile; a
\* request whose profile fetch failed is served in the degraded way and is
\* not answered as not found.
C26_NotFoundOnlyForUnknownUser ==
    lp_pc = "answered" =>
        (lp_resp.status_code = 404 <=> lp.profile_fetch = "no_row")

(***************************************************************************)
(* Content recommendations on the two serving paths: the rule-based        *)
(* AIRecommendationEngine.recommend_content of GET /nudge/recommend-path,  *)
(* and ContentBasedEngine.get_content_recommendations as the orchestrator  *)
(* calls it.  A recommendation is the id of its item.                      *)
(***************************************************************************)
\* a row of learning_content; scores and points in hundredths of the unit
\* _calculate_content_score adds up
content_item(id) ==
    [id |-> id,
     difficulty_level |-> IF id % 2 = 0 THEN "beginner"
                          ELSE IF id % 4 = 1 THEN "advanced" ELSE "intermediate",
     content_type |-> IF id % 3 = 0 THEN "article" ELSE "video",
     tags |-> IF id % 5 = 0 THEN {"bonds"} ELSE {"stocks"},
     estimated_duration_minutes |-> IF id % 4 = 0 THEN 45 ELSE 15,
     points_value |-> 10 * id]

\* load_content_data: the catalogue in the order the query returns it
Catalog == [id \in 1..CatalogSize |-> content_item(id)]

Statuses == {"none", "in_progress", "completed"}

completed_content_ids == {id \in DOMAIN progress : progress[id] = "completed"}
in_progress_content_ids == {id \in DOMAIN progress : progress[id] = "in_progress"}

\* the ids of the items of a list that pass a test, in the order of the list
IdsWhere(items, Keep(_)) ==
    LET kept == SelectSeq(items, Keep)
    IN  [i \in 1..Len(kept) |-> kept[i].id]

\* step 2 of recommend_content without its difficulty filter
passes_difficulty_ungated(item) == TRUE

\* "Filter by difficulty": the two continue statements
passes_difficulty(item) ==
    IF Cardinality(completed_content_ids) < BeginnerGate
            /\ item.difficulty_level # "beginner" THEN FALSE
    ELSE IF Cardinality(completed_content_ids) >= AdvancedGate
            /\ item.difficulty_level = "beginner" THEN FALSE
    ELSE TRUE

\* step 2: the items neither completed nor in progress that pass the filters
matches_preferences(item, args) ==
    /\ item.id \notin completed_content_ids
    /\ item.id \notin in_progress_content_ids
    /\ passes_difficulty(item)
    /\ ~(args.preferred_content_types # {}
            /\ item.content_type \notin args.preferred_content_types)
    /\ args.preferred_topics # {}
    /\ item.tags \cap args.preferred_topics # {}

\* recommend_content: [] when the progress query raises
rule_based_content(args) ==
    IF args.raises THEN [fallback |-> FALSE, recs |-> <<>>]
    ELSE LET InProgress(item) == item.id \in in_progress_content_ids
             Matches(item) == matches_preferences(item, args)
             NotCompleted(item) == item.id \notin completed_content_ids
             recommendations ==
                IdsWhere(content_data, InProgress) \o IdsWhere(content_data, Matches)
         IN  IF recommendations = <<>>
                THEN [fallback |-> TRUE,
                      recs |-> FirstN(IdsWhere(FirstN(content_data, FallbackItems),
                                               NotCompleted), PathItems)]
                ELSE [fallback |-> FALSE, recs |-> FirstN(recommendations, PathItems)]

\* _calculate_content_score, in hundredths
calculate_content_score(content, args) ==
    (IF args.learning_style = "kinesthetic" /\ content.content_type = "challenge" THEN 30
     ELSE IF args.learning_style = "visual" /\ content.content_type \in {"video", "lesson"}
        THEN 30
     ELSE IF args.learning_style = "reading" /\ content.content_type = "article" THEN 30
     ELSE 0)
    + Cardinality(args.preferred_topics \cap content.tags) * 20
    + (IF content.estimated_duration_minutes <= 20 THEN 10 ELSE 0)
    + (IF content.points_value \div 2 < 20 THEN content.points_value \div 2 ELSE 20)

\* behavior_data.get('completed_content_ids', []): the dict is
\* UserBehaviorData.__dict__, which has no such key
completed_content == {}

RECURSIVE ScoredWhere(_, _, _)
ScoredWhere(items, excluded, args) ==
    IF items = <<>> THEN <<>>
    ELSE (IF Head(items).id \in excluded THEN <<>>
          ELSE <<<<Head(items).id, calculate_content_score(Head(items), args)>>>>)
            \o ScoredWhere(Tail(items), excluded, args)

\* get_content_recommendations(user_profile, completed_content, top_k=3)
content_based(args) ==
    IF ~args.built THEN <<>>
    ELSE FirstN(SortedDesc(ScoredWhere(content_data, completed_content, args)), TopK)

RECURSIVE Firsts(_)
Firsts(pairs) == IF pairs = <<>> THEN <<>> ELSE <<Head(pairs)[1]>> \o Firsts(Tail(pairs))

\* the calls under study
ContentRequests ==
    {[path |-> "rule_based", preferred_content_types |-> t, preferred_topics |-> o,
      learning_style |-> "visual", built |-> FALSE, raises |-> FALSE] :
        t \in {{}, {"article"}}, o \in {{}, {"stocks"}}}
    \cup {[path |-> "rule_based", preferred_content_types |-> {}, preferred_topics |-> {},
           learning_style |-> "visual", built |-> FALSE, raises |-> TRUE]}
    \cup {[path |-> "orchestrator", preferred_content_types |-> {}, preferred_topics |-> o,
           learning_style |-> l, built |-> TRUE, raises |-> FALSE] :
        o \in {{}, {"stocks"}}, l \in {"visual", "reading"}}
    \cup {[path |-> "orchestrator", preferred_content_types |-> {}, preferred_topics |-> {},
           learning_style |-> "visual", built |-> FALSE, raises |-> FALSE]}

ContentStart ==
    /\ content_data = Catalog
    /\ progress = [id \in 1..CatalogSize |-> "none"]
    /\ ct_pc = "args"
    /\ ct_args = NoContentArgs
    /\ ct_result = NoContent

\* the user starts or completes an item
RecordProgress ==
    /\ ct_pc = "args"
    /\ \E id \in DOMAIN progress, status \in {"in_progress", "completed"} :
        /\ progress[id] # "completed"
        /\ progress[id] # status
        /\ progress' = [progress EXCEPT ![id] = status]
        /\ Cardinality({i \in DOMAIN progress : progress'[i] = "in_progress"})
                <= MaxInProgress
    /\ UNCHANGED <<content_data, ct_pc, ct_args, ct_result>>
    /\ UNCHANGED <<service_vars, bias_vars, dedup_vars, fetcher_vars>>

RecommendContent ==
    /\ ct_pc = "args"
    /\ ct_pc' = "returned"
    /\ \E args \in ContentRequests :
        /\ ct_args' = args
        /\ ct_result' =
            IF args.path = "rule_based" THEN rule_based_content(args)
            ELSE [fallback |-> FALSE, recs |-> Firsts(content_based(args))]
    /\ UNCHANGED <<content_data, progress>>
    /\ UNCHANGED <<service_vars, bias_vars, dedup_vars, fetcher_vars>>

ContentDone ==
    /\ ct_pc = "returned"
    /\ ct_pc' = "args"
    /\ ct_args' = NoContentArgs
    /\ ct_result' = NoContent
    /\ UNCHANGED <<content_data, progress>>
    /\ UNCHANGED <<service_vars, bias_vars, dedup_vars, fetcher_vars>>

NextContent ==
    \/ RecordProgress
    \/ RecommendContent
    \/ ContentDone

InitContent ==
    /\ OrchestratorIdle /\ FusionIdle /\ PathIdle /\ NudgeIdle /\ NeighbourIdle
    /\ ContentStart /\ BiasIdle /\ DedupIdle /\ FetcherIdle

SpecContent == InitContent /\ [][NextContent]_vars

(***************************************************************************)
(* Claims about content recommendations.                                   *)
(***************************************************************************)
Answered == ct_pc = "returned" /\ ~ct_args.raises

Recommended == {ct_result.recs[i] : i \in 1..Len(ct_result.recs)}

\* C23: for a user with fewer than 5 completed items the recommendations
\* hold beginner items only, unless the fallback was taken; for a user with
\* 10 completed items or more they hold no beginner item, unless the
\* fallback was taken.
C23_DifficultyGates ==
    (Answered /\ ~ct_result.fallback) =>
        /\ Cardinality(completed_content_ids) < BeginnerGate =>
                \A id \in Recommended : Catalog[id].difficulty_level = "beginner"
        /\ Cardinality(completed_content_ids) >= AdvancedGate =>
                \A id \in Recommended : Catalog[id].difficulty_level # "beginner"

\* the items the user has neither completed nor begun
Unclaimed == {id \in DOMAIN progress : progress[id] = "none"}

TierRank(level) ==
    CASE level = "beginner" -> 1 [] level = "intermediate" -> 2 [] level = "advanced" -> 3

\* C24: when the catalogue holds an item the user has not completed, the
\* answer is not empty; an answer by the fallback holds at most 5 items,
\* all of the lowest difficulty tier found among the unclaimed items.
C24_NeverEmptyWhenDataExists ==
    (Answered /\ (ct_args.path = "orchestrator" => ct_args.built)
        /\ \E id \in DOMAIN progress : progress[id] # "completed") =>
        /\ ct_result.recs # <<>>
        /\ ct_result.fallback =>
            /\ Len(ct_result.recs) <= FallbackItems
            /\ \A id \in Recommended :
                /\ id \in Unclaimed
                /\ \A other \in Unclaimed :
                    TierRank(Catalog[id].difficulty_level)
                        <= TierRank(Catalog[other].difficulty_level)

\* C25: no item the user has completed is recommended, on either path.
C25_CompletedNeverRecommended ==
    Answered => Recommended \cap completed_content_ids = {}

(***************************************************************************)
(* BiasDetector.detect_biases.  user_data is a dict: each key the rules    *)
(* read is absent (<<>>) or holds a value (<<v>>); other_keys says whether *)
(* the dict holds keys the rules do not read, such as user_id.             *)
(***************************************************************************)
Absent == <<>>

\* user_data.get(key, default)
Get(user_data, key, default) ==
    IF user_data[key] = Absent THEN default ELSE user_data[key][1]

UserDatas ==
    [other_keys : BOOLEAN,
     investment_experience_years : {Absent, <<1>>, <<5>>},
     decision_frequency_per_month : {Absent, <<0>>, <<3>>},
     recent_portfolio_change_percentage : {Absent, <<-20>>, <<5>>},
     risk_assessment_score : {Absent, <<50>>, <<80>>},
     recent_impulsive_trades : {Absent, <<0>>, <<2>>},
     has_emergency_fund : {Absent, <<TRUE>>, <<FALSE>>},
     news_consumption_sources : {Absent, <<1>>, <<3>>}]

\* "not user_data": the dict has no key at all
IsEmptyDict(user_data) ==
    /\ ~user_data.other_keys
    /\ \A key \in DOMAIN user_data \ {"other_keys"} : user_data[key] = Absent

overconfidence_bias(user_data) ==
    /\ Get(user_data, "investment_experience_years", 0) > 3
    /\ Get(user_data, "decision_frequency_per_month", 0) > 2
    /\ Get(user_data, "recent_portfolio_change_percentage", 0) < -10
    /\ Get(user_data, "risk_assessment_score", 0) > 70

loss_aversion(user_data) ==
    /\ Get(user_data, "recent_portfolio_change_percentage", 0) < -10
    /\ Get(user_data, "recent_impulsive_trades", 0) > 0

\* user_data.get("has_emergency_fund") == False: None is not False
status_quo_bias(user_data) ==
    /\ Get(user_data, "decision_frequency_per_month", 0) < 1
    /\ user_data.has_emergency_fund = <<FALSE>>

\* len(user_data.get("news_consumption_sources", [])) <= 1; the value held
\* is the length of the list
confirmation_bias(user_data) ==
    Get(user_data, "news_consumption_sources", 0) <= 1

detect_biases(user_data) ==
    IF IsEmptyDict(user_data) THEN <<>>
    ELSE (IF overconfidence_bias(user_data) THEN <<"Overconfidence Bias">> ELSE <<>>)
        \o (IF loss_aversion(user_data) THEN <<"Loss Aversion">> ELSE <<>>)
        \o (IF status_quo_bias(user_data) THEN <<"Status Quo Bias">> ELSE <<>>)
        \o (IF confirmation_bias(user_data) THEN <<"Confirmation Bias">> ELSE <<>>)

DetectBiases ==
    /\ bd_pc = "args"
    /\ bd_pc' = "returned"
    /\ \E user_data \in UserDatas :
        /\ bd_user_data' = user_data
        /\ bd_result' = detect_biases(user_data)
    /\ UNCHANGED <<service_vars, content_vars, dedup_vars, fetcher_vars>>

BiasDone ==
    /\ bd_pc = "returned"
    /\ bd_pc' = "args"
    /\ bd_user_data' = NoUserData
    /\ bd_result' = <<>>
    /\ UNCHANGED <<service_vars, content_vars, dedup_vars, fetcher_vars>>

NextBias ==
    \/ DetectBiases
    \/ BiasDone

InitBias ==
    /\ OrchestratorIdle /\ FusionIdle /\ PathIdle /\ NudgeIdle /\ NeighbourIdle
    /\ ContentIdle /\ BiasIdle /\ DedupIdle /\ FetcherIdle

SpecBias == InitBias /\ [][NextBias]_vars

(***************************************************************************)
(* Claims about the bias detector.                                         *)
(***************************************************************************)
\* what each rule asks of the data, a key that is absent meeting nothing
Holds(user_data, key) == user_data[key] # Absent

MeetsARule(user_data) ==
    \/ /\ Holds(user_data, "investment_experience_years")
       /\ Holds(user_data, "decision_frequency_per_month")
       /\ Holds(user_data, "recent_portfolio_change_percentage")
       /\ Holds(user_data, "risk_assessment_score")
       /\ user_data.investment_experience_years[1] > 3
       /\ user_data.decision_frequency_per_month[1] > 2
       /\ user_data.recent_portfolio_change_percentage[1] < -10
       /\ user_data.risk_assessment_score[1] > 70
    \/ /\ Holds(user_data, "recent_portfolio_change_percentage")
       /\ Holds(user_data, "recent_impulsive_trades")
       /\ user_data.recent_portfolio_change_percentage[1] < -10
       /\ user_data.recent_impulsive_trades[1] > 0
    \/ /\ Holds(user_data, "decision_frequency_per_month")
       /\ user_data.decision_frequency_per_month[1] < 1
       /\ user_data.has_emergency_fund = <<FALSE>>
    \/ /\ Holds(user_data, "news_consumption_sources")
       /\ user_data.news_consumption_sources[1] <= 1

\* C27: for user data that meets the conditions of no rule, data without
\* the keys the rules read included, the detector returns the empty list.
C27_NoRuleMetGivesNoBias ==
    (bd_pc = "returned" /\ ~MeetsARule(bd_user_data)) => bd_result = <<>>

(***************************************************************************)
(* DataProcessor.process_raw_data with _remove_duplicates.  A raw item     *)
(* carries a symbol, a timestamp and a closing price; valid says whether   *)
(* validate_price_data accepts its prices.  A symbol of "" is no symbol:   *)
(* _extract_symbol raises on it.                                           *)
(***************************************************************************)
RawItems ==
    [symbol : {"AAA", "BBB", ""}, timestamp : {1, 2}, close : {10, 11}, valid : BOOLEAN]

RawLists == UNION {[1..n -> RawItems] : n \in 0..MaxRaw}

ProcessingConfigs == [validate_data : BOOLEAN, remove_duplicates : BOOLEAN]

\* _process_single_item: None (<<>>) for an item that fails validation or
\* makes the extraction raise, else the MarketDataPoint
process_single_item(item, config) ==
    IF config.validate_data /\ ~item.valid THEN None
    ELSE IF item.symbol = "" THEN None
    ELSE Some([symbol |-> item.symbol, timestamp |-> item.timestamp,
               close_price |-> item.close])

\* the loop of process_raw_data
RECURSIVE process_items(_, _)
process_items(raw_data, config) ==
    IF raw_data = <<>> THEN <<>>
    ELSE LET processed_item == process_single_item(Head(raw_data), config)
         IN  (IF processed_item = None THEN <<>> ELSE <<processed_item[1]>>)
                \o process_items(Tail(raw_data), config)

\* key = (item.symbol, item.timestamp)
key_of(item) == <<item.symbol, item.timestamp>>

\* the loop of _remove_duplicates, seen being the keys met so far
RECURSIVE unique_data(_, _)
unique_data(data, seen) ==
    IF data = <<>> THEN <<>>
    ELSE IF key_of(Head(data)) \in seen THEN unique_data(Tail(data), seen)
    ELSE <<Head(data)>> \o unique_data(Tail(data), seen \cup {key_of(Head(data))})

\* a pass that removes nothing
remove_duplicates_keeps_all(data) == data

\* _remove_duplicates
remove_duplicates(data) == unique_data(data, {})

process_raw_data(raw_data, config) ==
    IF config.remove_duplicates
        THEN remove_duplicates(process_items(raw_data, config))
        ELSE process_items(raw_data, config)

ProcessRawData ==
    /\ dp_pc = "args"
    /\ dp_pc' = "returned"
    /\ \E raw_data \in RawLists :
        /\ dp_counts.processed_count + Len(raw_data) <= MaxProcessed
        /\ dp_raw_data' = raw_data
        /\ dp_result' = process_raw_data(raw_data, dp_config)
        /\ dp_counts' = [dp_counts EXCEPT
                            !.processed_count = @ + Len(process_items(raw_data, dp_config))]
    /\ UNCHANGED dp_config
    /\ UNCHANGED <<service_vars, content_vars, bias_vars, fetcher_vars>>

DedupDone ==
    /\ dp_pc = "returned"
    /\ dp_pc' = "args"
    /\ dp_raw_data' = <<>>
    /\ dp_result' = <<>>
    /\ UNCHANGED <<dp_config, dp_counts>>
    /\ UNCHANGED <<service_vars, content_vars, bias_vars, fetcher_vars>>

DedupStart ==
    /\ dp_pc = "args"
    /\ dp_config \in ProcessingConfigs
    /\ dp_counts = [processed_count |-> 0, error_count |-> 0]
    /\ dp_raw_data = <<>>
    /\ dp_result = <<>>

NextDedup ==
    \/ ProcessRawData
    \/ DedupDone

InitDedup ==
    /\ OrchestratorIdle /\ FusionIdle /\ PathIdle /\ NudgeIdle /\ NeighbourIdle
    /\ ContentIdle /\ BiasIdle /\ DedupStart /\ FetcherIdle

SpecDedup == InitDedup /\ [][NextDedup]_vars

(***************************************************************************)
(* Claims about de-duplication.                                            *)
(***************************************************************************)
\* the items de-duplication is handed: those of the input that were processed
Handed == process_items(dp_raw_data, dp_config)

min_interval == 10 \div rate_limit

\* what session.get answers: a status, and for 200 whether response.json()
\* parses the body
Responses ==
    {[status |-> 200, json |-> TRUE], [status |-> 200, json |-> FALSE],
     [status |-> 204, json |-> FALSE], [status |-> 429, json |-> FALSE],
     [status |-> 500, json |-> FALSE]}

FetcherStart ==
    /\ ft_now = StartClock
    /\ last_request_time = 0
    /\ ft_pc = [t \in Tasks |-> "idle"]
    /\ ft_wake = [t \in Tasks |-> 0]
    /\ ft_released = [t \in Tasks |-> <<>>]
    /\ rq_attempt = 0
    /\ rq_log = <<>>
    /\ rq_outcome = ""

\* time passes; a sleep that is due ends before it passes further
FetcherTick ==
    /\ ft_now < MaxClock
    /\ \A t \in Tasks : ft_pc[t] = "sleeping" => ft_wake[t] > ft_now
    /\ ft_now' = ft_now + 1
    /\ UNCHANGED <<last_request_time, ft_pc, ft_wake, ft_released,
                   rq_attempt, rq_log, rq_outcome>>
    /\ UNCHANGED <<service_vars, content_vars, bias_vars, dedup_vars>>

\* _rate_limit up to its await, or to its end when it does not sleep
rate_limit_enter(t) ==
    /\ ft_pc[t] = "idle"
    /\ LET time_since_last_request == ft_now - last_request_time
       IN  IF time_since_last_request < min_interval
            THEN /\ ft_wake' = [ft_wake EXCEPT
                                    ![t] = ft_now + (min_interval - time_since_last_request)]
                 /\ ft_pc' = [ft_pc EXCEPT ![t] = "sleeping"]
                 /\ UNCHANGED <<last_request_time, ft_released>>
            ELSE /\ last_request_time' = ft_now
                 /\ ft_released' = [ft_released EXCEPT ![t] = <<ft_now>>]
                 /\ ft_pc' = [ft_pc EXCEPT ![t] = "released"]
                 /\ UNCHANGED ft_wake
    /\ UNCHANGED <<ft_now, rq_attempt, rq_log, rq_outcome>>
    /\ UNCHANGED <<service_vars, content_vars, bias_vars, dedup_vars>>

\* _rate_limit after asyncio.sleep: self.last_request_time = time.time()
rate_limit_wake(t) ==
    /\ ft_pc[t] = "sleeping"
    /\ ft_now >= ft_wake[t]
    /\ last_request_time' = ft_now
    /\ ft_released' = [ft_released EXCEPT ![t] = <<ft_now>>]
    /\ ft_pc' = [ft_pc EXCEPT ![t] = "released"]
    /\ UNCHANGED <<ft_now, ft_wake, rq_attempt, rq_log, rq_outcome>>
    /\ UNCHANGED <<service_vars, content_vars, bias_vars, dedup_vars>>

\* wait_time = self.config.retry_delay * (2 ** attempt)
wait_time(attempt) == retry_delay * 2^attempt

\* the sleep that follows an attempt which met response
sleep_after(response, attempt) ==
    IF response.status = 429 THEN wait_time(attempt)
    ELSE IF response.status = 200 /\ response.json THEN 0
    ELSE IF response.status >= 400 \/ response.status = 200
        THEN \* raise_for_status, or response.json(), raised
             IF attempt < retries - 1 THEN wait_time(attempt) ELSE 0
    ELSE 0

\* how the request ends with this attempt: "" when the loop goes on
outcome_after(response, attempt) ==
    IF response.status = 200 /\ response.json THEN "returned"
    ELSE IF attempt = retries - 1 THEN "raised"
    ELSE ""

\* one turn of the loop of _make_request, task 1
MakeAttempt ==
    /\ ft_pc[1] = "released"
    /\ rq_attempt < retries
    /\ \E response \in Responses :
        /\ rq_log' = Append(rq_log, [status |-> response.status, json |-> response.json,
                                     slept |-> sleep_after(response, rq_attempt)])
        /\ rq_outcome' = outcome_after(response, rq_attempt)
        /\ rq_attempt' = rq_attempt + 1
        /\ ft_pc' = [ft_pc EXCEPT ![1] = IF outcome_after(response, rq_attempt) = ""
                                            THEN "released" ELSE "done"]
    /\ UNCHANGED <<ft_now, last_request_time, ft_wake, ft_released>>
    /\ UNCHANGED <<service_vars, content_vars, bias_vars, dedup_vars>>

\* the caller has the answer; the fetcher is free for its next request
RequestDone ==
    /\ ft_pc[1] = "done"
    /\ ft_pc' = [ft_pc EXCEPT ![1] = "idle"]
    /\ ft_released' = [ft_released EXCEPT ![1] = <<>>]
    /\ rq_attempt' = 0
    /\ rq_log' = <<>>
    /\ rq_outcome' = ""
    /\ UNCHANGED <<ft_now, last_request_time, ft_wake>>
    /\ UNCHANGED <<service_vars, content_vars, bias_vars, dedup_vars>>

RateLimitEnter == \E t \in Tasks : rate_limit_enter(t)

RateLimitWake == \E t \in Tasks : rate_limit_wake(t)

\* several requests on one fetcher, as asyncio.gather runs them
NextRateLimit ==
    \/ FetcherTick
    \/ RateLimitEnter
    \/ RateLimitWake

InitFetcher ==
    /\ OrchestratorIdle /\ FusionIdle /\ PathIdle /\ NudgeIdle /\ NeighbourIdle
    /\ ContentIdle /\ BiasIdle /\ DedupIdle /\ FetcherStart

SpecRateLimit == InitFetcher /\ [][NextRateLimit]_vars

RequestEnter == rate_limit_enter(1)

RequestWake == rate_limit_wake(1)

\* one request after another on a fetcher
NextRequest ==
    \/ FetcherTick
    \/ RequestEnter
    \/ RequestWake
    \/ MakeAttempt
    \/ RequestDone

SpecRequest == InitFetcher /\ [][NextRequest]_vars

(***************************************************************************)
(* Claims about the fetcher.                                               *)
(***************************************************************************)
\* C29: a request makes at most retries attempts; it returns with the first
\* attempt answered 200; an attempt followed by another is followed by a
\* sleep of retry_delay * 2^attempt first; when the last attempt failed the
\* request raises.
C29_BoundedRetriesWithBackoff ==
    rq_outcome # "" =>
    /\ Len(rq_log) <= retries
    /\ \A i \in 1..Len(rq_log) :
        /\ rq_log[i].status = 200 => (i = Len(rq_log) /\ rq_outcome = "returned")
        /\ i < Len(rq_log) => rq_log[i].slept = retry_delay * 2^(i - 1)
    /\ rq_outcome = "returned" => rq_log[Len(rq_log)].status = 200
    /\ (Len(rq_log) = retries /\ rq_log[retries].status # 200) => rq_outcome = "raised"
    /\ rq_outcome = "raised" => Len(rq_log) = retries

\* C30: any two requests that _rate_limit released on one fetcher were
\* released at least min_interval apart.
C30_ReleasesAreSpaced ==
    \A t, u \in Tasks :
        (t # u /\ ft_released[t] # <<>> /\ ft_released[u] # <<>>) =>
            \/ ft_released[t][1] - ft_released[u][1] >= min_interval
            \/ ft_released[u][1] - ft_released[t][1] >= min_interval

====
